---- MODULE Spec2Model ----
(***************************************************************************)
(* jsonschema-llm: the Python hosts of the WASI engine (SchemaLlmEngine,   *)
(* Engine, LlmRoundtripEngine), the JslResult protocol they follow, the    *)
(* exported ABI of the guest as the hosts and host_verify.py drive it, and *)
(* the reference resolver / converter walk over $ref graphs.               *)
(***************************************************************************)
EXTENDS Integers, Sequences, FiniteSets, TLC

VARIABLES
    host,           \* class of the engine object whose calls are modelled
    module,         \* the compiled WASM module held in self._module
    abi_verified,   \* self._abi_verified
    pc,             \* position inside _call_jsl / _call_wasi
    func_name,      \* argument func_name of the call in flight
    json_args,      \* argument *json_args of the call in flight (encoded)
    argi,           \* index of the next argument of the allocation loop
    inst,           \* guest instance of the call: live buffers and results
    allocs,         \* local allocs: sequence of <<ptr, len>>
    result_ptr,     \* local result_ptr
    envelope,       \* the JslResult the export produced for this call
    outcome,        \* what the call returned or raised
    log,            \* guest exports called during the call in flight
    handshakes,     \* number of jsl_abi_version calls that returned 1
    first,          \* input and outcome of the first call of the engine
    root_schema,    \* converter: the document being converted and its options
    walk,           \* converter: the work stack of the tree rewriter
    conv,           \* converter: reference table, codec and result
    convert_options, \* convert options: the options document and its parse
    rt,             \* round trip: schema, document, codec and rehydrated data
    gen,            \* LlmRoundtripEngine.generate: locals and collaborators' calls
    val,            \* LlmRoundtripEngine._validate: arguments and result
    run,            \* run_cli_test.run_single_schema / classify_result: locals
    fmt,            \* ProviderFormatter.extract_content: argument and result
    car,            \* ConvertAllComponentsResult.from_dict: argument and result
    pipe,           \* run_cli_test._run_pipeline_once: stages run and result
    smain,          \* run_cli_test.main: results, summary and exit status
    cmp,            \* compare_reports: the two reports, the diff, the exit code
    strip,          \* preprocess-asyncapi.strip_meta_schemas: schema and result
    san,            \* the two schema-name sanitizers: name and results
    prng,           \* stress bot _mulberry32: seed, state and values drawn
    shuf            \* stress bot fisher_yates_shuffle: arr, copy and swaps

convVars == <<root_schema, walk, conv>>

auxVars == <<car, pipe, smain, cmp, strip, san, prng, shuf>>

extVars == <<convert_options, rt, gen, val, run, fmt, auxVars>>

hostVars == <<host, module, abi_verified, pc, func_name, json_args, argi, inst,
              allocs, result_ptr, envelope, outcome, log, handshakes, first>>

vars == <<host, module, abi_verified, pc, func_name, json_args, argi, inst,
          allocs, result_ptr, envelope, outcome, log, handshakes, first,
          root_schema, walk, conv, convert_options,
          rt, gen, val, run, fmt, auxVars>>

----------------------------------------------------------------------------
(* Program constants                                                        *)

JSL_RESULT_SIZE == 12
EXPECTED_ABI_VERSION == 1
STATUS_OK == 0
STATUS_ERROR == 1

(* Bounds of the model                                                      *)

\* first address the guest allocator hands out (address 0 is the null pointer)
HeapBase == 16
\* linear-memory sizes (bytes) of the modules tried
MemSmall == 24
MemLarge == 48
\* linear-memory size of the instance host_verify.py drives
MemAbi == 128
\* sentinel sizes of a payload on the wire
PayloadBase == 2

\* bytes: ASCII codes, and 254 / 255 which never occur in UTF-8
EMPTY == << >>
OBJ == <<123, 125>>
NOTJSON == <<78, 79, 84>>
Docs == {EMPTY, OBJ, NOTJSON}

Min(S) == CHOOSE x \in S : \A y \in S : x <= y

NoDict == [k \in {} |-> ""]

----------------------------------------------------------------------------
(* Bytes crossing the ABI                                                   *)

\* index (0-based) of the first byte that cannot occur in UTF-8, or -1
Utf8ErrorOffset(bytes) ==
    LET bad == {i \in 1..Len(bytes) : bytes[i] >= 248}
    IN IF bad = {} THEN -1 ELSE Min(bad) - 1

RECURSIVE StripWs(_)
StripWs(bytes) ==
    IF bytes = << >> THEN << >>
    ELSE IF Head(bytes) = 32 THEN StripWs(Tail(bytes))
    ELSE <<Head(bytes)>> \o StripWs(Tail(bytes))

\* the only JSON documents of the byte alphabet are (whitespace-padded) {}
JsonParses(bytes) == StripWs(bytes) = OBJ

----------------------------------------------------------------------------
(* Guest: allocator exports                                                 *)

FreshInstance == [live |-> {}, results |-> {}, corrupt |-> FALSE]

Occupied(i) ==
    {<<a.ptr, a.len>> : a \in i.live}
    \cup {<<r.ptr, JSL_RESULT_SIZE>> : r \in i.results}
    \cup {<<r.payload_ptr, r.payload_len>> : r \in {q \in i.results : ~q.oob}}

\* lowest address at which n bytes fit: the heap base or the end of a block
FirstFit(i, mem, n) ==
    LET occ == Occupied(i)
        starts == {HeapBase} \cup {o[1] + o[2] : o \in occ}
        free == {p \in starts :
                    /\ p + n <= mem
                    /\ \A o \in occ : p + n <= o[1] \/ o[1] + o[2] <= p}
    IN IF free = {} THEN 0 ELSE Min(free)

\* jsl_alloc(size): the pointer returned
jsl_alloc(i, m, size) ==
    IF size = 0 THEN m.alloc0 ELSE FirstFit(i, m.mem, size)

\* the instance after jsl_alloc(size) returned ptr and the host wrote bytes
AfterAlloc(i, ptr, bytes) ==
    IF Len(bytes) = 0 THEN i
    ELSE [i EXCEPT !.live = @ \cup {[ptr |-> ptr, len |-> Len(bytes), bytes |-> bytes]}]

jsl_free_unguarded(i, ptr, len) ==
    IF \E a \in i.live : a.ptr = ptr /\ a.len = len
    THEN [i EXCEPT !.live = {a \in @ : ~(a.ptr = ptr /\ a.len = len)}]
    ELSE [i EXCEPT !.corrupt = TRUE]

\* jsl_free(ptr, len): guards ptr == 0 and len == 0, else deallocates
jsl_free(i, ptr, len) ==
    IF ptr = 0 \/ len = 0 THEN i
    ELSE IF \E a \in i.live : a.ptr = ptr /\ a.len = len
    THEN [i EXCEPT !.live = {a \in @ : ~(a.ptr = ptr /\ a.len = len)}]
    ELSE [i EXCEPT !.corrupt = TRUE]

\* jsl_result_free(result_ptr): guard 0, else frees struct and payload
jsl_result_free(i, rp) ==
    IF rp = 0 THEN i
    ELSE IF \E r \in i.results : r.ptr = rp
    THEN [i EXCEPT !.results = {r \in @ : r.ptr # rp}]
    ELSE [i EXCEPT !.corrupt = TRUE]

----------------------------------------------------------------------------
(* Guest: operation exports                                                 *)

\* a read outside every buffer has no defined payload: the instance traps
TrapDict == [k \in {"code"} |-> "trap"]

ErrPayload(code, offset) ==
    IF code = "trap" THEN [bytes |-> "json", offset |-> -1, dict |-> TrapDict] ELSE
    [bytes |-> "json", offset |-> offset,
     dict |-> [k \in {"code", "message"} |->
                 IF k = "code" THEN code
                 ELSE IF offset >= 0 THEN "invalid UTF-8 at byte offset"
                 ELSE "error"]]

OkPayload(keys) ==
    [bytes |-> "json", offset |-> -1,
     dict |-> [k \in keys |-> IF k = "apiVersion" THEN "1.0" ELSE k]]

read_guest_str_unguarded(i, ptr, len) ==
    IF ~\E a \in i.live : a.ptr = ptr /\ a.len >= len
    THEN [code |-> "trap", offset |-> -1, text |-> << >>]
    ELSE LET buf == CHOOSE a \in i.live : a.ptr = ptr /\ a.len >= len
             b == SubSeq(buf.bytes, 1, len)
             off == Utf8ErrorOffset(b)
         IN IF off >= 0 THEN [code |-> "invalid_utf8", offset |-> off, text |-> << >>]
            ELSE [code |-> "", offset |-> -1, text |-> b]

read_guest_str_lossy(i, ptr, len) ==
    IF len = 0 THEN [code |-> "", offset |-> -1, text |-> << >>]
    ELSE IF ptr = 0 THEN [code |-> "invalid_pointer", offset |-> -1, text |-> << >>]
    ELSE IF ~\E a \in i.live : a.ptr = ptr /\ a.len >= len
    THEN [code |-> "trap", offset |-> -1, text |-> << >>]
    ELSE LET buf == CHOOSE a \in i.live : a.ptr = ptr /\ a.len >= len
         IN [code |-> "", offset |-> -1, text |-> SubSeq(buf.bytes, 1, len)]

\* read_guest_str: "" for len = 0, invalid_pointer for a null pointer,
\* invalid_utf8 with the byte offset, else the text
read_guest_str(i, ptr, len) ==
    IF len = 0 THEN [code |-> "", offset |-> -1, text |-> << >>]
    ELSE IF ptr = 0 THEN [code |-> "invalid_pointer", offset |-> -1, text |-> << >>]
    ELSE IF ~\E a \in i.live : a.ptr = ptr /\ a.len >= len
    THEN [code |-> "trap", offset |-> -1, text |-> << >>]
    ELSE LET buf == CHOOSE a \in i.live : a.ptr = ptr /\ a.len >= len
             b == SubSeq(buf.bytes, 1, len)
             off == Utf8ErrorOffset(b)
         IN IF off >= 0 THEN [code |-> "invalid_utf8", offset |-> off, text |-> << >>]
            ELSE [code |-> "", offset |-> -1, text |-> b]

FirstError(reads) ==
    LET bad == {k \in 1..Len(reads) : reads[k].code # ""}
    IN IF bad = {} THEN 0 ELSE Min(bad)

\* jsl_convert(schema_ptr, schema_len, opts_ptr, opts_len): status and payload
ConvertEnvelope(i, flat) ==
    LET schema == read_guest_str(i, flat[1], flat[2])
        opts == read_guest_str(i, flat[3], flat[4])
        e == FirstError(<<schema, opts>>)
    IN IF e # 0
       THEN [status |-> STATUS_ERROR,
             payload |-> ErrPayload(<<schema, opts>>[e].code, <<schema, opts>>[e].offset)]
       ELSE IF ~JsonParses(schema.text)
       THEN [status |-> STATUS_ERROR, payload |-> ErrPayload("json_parse_error", -1)]
       ELSE IF flat[4] # 0 /\ ~JsonParses(opts.text)
       THEN [status |-> STATUS_ERROR, payload |-> ErrPayload("json_parse_error", -1)]
       ELSE [status |-> STATUS_OK, payload |-> OkPayload({"apiVersion", "schema", "codec"})]

\* jsl_rehydrate(data, codec, schema): status and payload
RehydrateEnvelope(i, flat) ==
    LET rs == <<read_guest_str(i, flat[1], flat[2]),
                read_guest_str(i, flat[3], flat[4]),
                read_guest_str(i, flat[5], flat[6])>>
        e == FirstError(rs)
    IN IF e # 0
       THEN [status |-> STATUS_ERROR, payload |-> ErrPayload(rs[e].code, rs[e].offset)]
       ELSE IF \E k \in 1..3 : ~JsonParses(rs[k].text)
       THEN [status |-> STATUS_ERROR, payload |-> ErrPayload("json_parse_error", -1)]
       ELSE [status |-> STATUS_OK, payload |-> OkPayload({"apiVersion", "data", "warnings"})]

ReferenceEnvelope(i, fn, flat) ==
    IF fn = "jsl_convert" THEN ConvertEnvelope(i, flat) ELSE RehydrateEnvelope(i, flat)

\* what a module that does not follow the protocol puts in its JslResult
ModuleEnvelope(i, m, fn, flat) ==
    LET ref == ReferenceEnvelope(i, fn, flat)
    IN CASE m.ret = "reference" -> ref
         [] m.ret = "status2" -> [ref EXCEPT !.status = 2]
         [] m.ret = "bare_error" ->
              [status |-> STATUS_ERROR,
               payload |-> [bytes |-> "json", offset |-> -1, dict |-> NoDict]]
         [] m.ret = "not_utf8" -> [ref EXCEPT !.payload.bytes = "not_utf8"]
         [] m.ret = "not_json" -> [ref EXCEPT !.payload.bytes = "not_json"]
         [] m.ret = "error_list" ->
              [status |-> STATUS_ERROR,
               payload |-> [bytes |-> "json_list", offset |-> -1, dict |-> NoDict]]
         [] OTHER -> ref

PayloadLen(payload) == PayloadBase + Cardinality(DOMAIN payload.dict)

NullResult ==
    [ptr |-> 0, status |-> 0, payload_ptr |-> 0, payload_len |-> 0, oob |-> FALSE,
     trap |-> FALSE, payload |-> [bytes |-> "json", offset |-> -1, dict |-> NoDict]]

\* the export runs: it allocates the 12-byte JslResult followed by the
\* payload from the instance's allocator and returns the struct's address,
\* or 0 when the memory of the instance cannot hold them
RunExport(i, m, fn, flat) ==
    LET env == ModuleEnvelope(i, m, fn, flat)
        n == PayloadLen(env.payload)
        rp == FirstFit(i, m.mem, JSL_RESULT_SIZE + n)
        pp == IF m.ret = "oob" THEN m.mem ELSE rp + JSL_RESULT_SIZE
    IN IF env.payload.dict = TrapDict THEN [NullResult EXCEPT !.trap = TRUE]
       ELSE IF rp = 0 THEN NullResult
       ELSE [ptr |-> rp, status |-> env.status, payload_ptr |-> pp, payload_len |-> n,
             oob |-> (m.ret = "oob"), trap |-> FALSE, payload |-> env.payload]

AfterExport(i, res) ==
    IF res.ptr = 0 THEN i ELSE [i EXCEPT !.results = @ \cup {res}]

----------------------------------------------------------------------------
(* Hosts: SchemaLlmEngine._call_jsl, Engine._call_jsl,                      *)
(* LlmRoundtripEngine._call_wasi                                            *)

\* a variable of a procedure the specification at hand does not run
Unused == [pc |-> "unused"]

AuxUnused ==
    /\ car = Unused
    /\ pipe = Unused
    /\ smain = Unused
    /\ cmp = Unused
    /\ strip = Unused
    /\ san = Unused
    /\ prng = Unused
    /\ shuf = Unused

ExtUnused ==
    /\ convert_options = Unused
    /\ rt = Unused
    /\ gen = Unused
    /\ val = Unused
    /\ run = Unused
    /\ fmt = Unused
    /\ AuxUnused

\* the converter variables while no conversion is modelled
NoSchema == [root |-> {}, defs |-> [d \in {} |-> {}], recursion_limit |-> 0, max_depth |-> 0]
NoConv == [status |-> "idle"]

Bindings == {"SchemaLlmEngine", "Engine"}
Hosts == Bindings \cup {"LlmRoundtripEngine"}

\* the binaries an engine may have been constructed on: the reference build
\* (alloc(0) null or dangling, small or large memory), builds that fail the
\* handshake, and builds whose JslResult does not follow the protocol
Modules ==
    {[has_abi |-> h, abi |-> 2, alloc0 |-> 1, mem |-> MemLarge, ret |-> "reference"] :
        h \in BOOLEAN}
    \cup {[has_abi |-> TRUE, abi |-> 1, alloc0 |-> z, mem |-> m, ret |-> "reference"] :
        z \in {0, 1}, m \in {MemSmall, MemLarge}}
    \cup {[has_abi |-> TRUE, abi |-> 1, alloc0 |-> 1, mem |-> MemLarge, ret |-> r] :
        r \in {"status2", "bare_error", "error_list", "not_utf8", "not_json", "oob"}}

Exports == {"jsl_convert", "jsl_rehydrate"}

ArgLists(fn) ==
    IF fn = "jsl_convert" THEN {<<a, b>> : a \in Docs, b \in Docs}
    ELSE {<<a, b, c>> : a \in Docs, b \in Docs, c \in Docs}

Pending ==
    [kind |-> "none", exc |-> "", code |-> "", message |-> "", path |-> "",
     n |-> 0, dict |-> NoDict]

Raise(exc, code, n) == [Pending EXCEPT !.kind = "raise", !.exc = exc, !.code = code, !.n = n]

Return(payload) == [Pending EXCEPT !.kind = "return", !.dict = payload]

Entry(fn, a, b, ret) == [fn |-> fn, a |-> a, b |-> b, ret |-> ret]

\* payload.get(key, default)
DictGet(d, k, default) == IF k \in DOMAIN d THEN d[k] ELSE default

NewStore_reused(prev) == prev

\* store = wasmtime.Store(...); instance = linker.instantiate(store, module)
NewStore(prev) == FreshInstance

AbiAccepted_any(version) == TRUE

\* version != EXPECTED_ABI_VERSION is an error
AbiAccepted(version) == version = EXPECTED_ABI_VERSION

\* the exception class of a protocol violation
ProtocolError(h) == IF h \in Bindings THEN "RuntimeError" ELSE "SchemaConversionError"

\* whether the allocation loop runs inside the try whose finally frees
AllocLoopInTry(h) == h = "LlmRoundtripEngine"

\* the entry of the call: instantiate, then the handshake
Call(fn, args) ==
    /\ pc = "idle"
    /\ func_name' = fn
    /\ json_args' = args
    /\ inst' = NewStore(inst)
    /\ argi' = 1
    /\ allocs' = << >>
    /\ result_ptr' = 0
    /\ envelope' = NullResult
    /\ LET shake == host \notin Bindings \/ ~abi_verified
           missing == IF host \in Bindings THEN "RuntimeError" ELSE "KeyError"
           mismatch == ProtocolError(host)
       IN IF ~shake
          THEN /\ log' = << >>
               /\ outcome' = Pending
               /\ pc' = "alloc"
               /\ UNCHANGED <<abi_verified, handshakes>>
          ELSE IF ~module.has_abi
          THEN /\ log' = << >>
               /\ outcome' = Raise(missing, "missing_export", 0)
               /\ pc' = "done"
               /\ UNCHANGED <<abi_verified, handshakes>>
          ELSE /\ log' = <<Entry("jsl_abi_version", 0, 0, module.abi)>>
               /\ handshakes' = IF module.abi = 1 /\ handshakes < 2
                                THEN handshakes + 1 ELSE handshakes
               /\ IF AbiAccepted(module.abi)
                  THEN /\ abi_verified' = (host \in Bindings)
                       /\ outcome' = Pending
                       /\ pc' = "alloc"
                  ELSE /\ outcome' = Raise(mismatch, "abi_mismatch", module.abi)
                       /\ pc' = "done"
                       /\ UNCHANGED abi_verified
    /\ UNCHANGED <<host, module, first>>
    /\ UNCHANGED convVars
    /\ UNCHANGED extVars

\* one iteration of `for arg in json_args`
AllocArg ==
    /\ pc = "alloc"
    /\ LET data == json_args[argi]
           ptr == jsl_alloc(inst, module, Len(data))
           e == Entry("jsl_alloc", Len(data), 0, ptr)
           exit == IF AllocLoopInTry(host) THEN "finally" ELSE "done"
       IN /\ log' = Append(log, e)
          /\ IF ptr = 0 /\ Len(data) > 0
             THEN /\ outcome' = Raise(ProtocolError(host), "alloc_null", Len(data))
                  /\ pc' = exit
                  /\ UNCHANGED <<inst, allocs, argi>>
             ELSE IF ptr + Len(data) > module.mem
             THEN /\ outcome' = Raise("IndexError", "write", ptr)
                  /\ pc' = exit
                  /\ inst' = AfterAlloc(inst, ptr, << >>)
                  /\ UNCHANGED <<allocs, argi>>
             ELSE /\ inst' = AfterAlloc(inst, ptr, data)
                  /\ allocs' = Append(allocs, <<ptr, Len(data)>>)
                  /\ argi' = argi + 1
                  /\ pc' = IF argi = Len(json_args) THEN "call" ELSE "alloc"
                  /\ UNCHANGED outcome
    /\ UNCHANGED <<host, module, abi_verified, func_name, json_args, result_ptr,
                   envelope, handshakes, first>>
    /\ UNCHANGED convVars
    /\ UNCHANGED extVars

RECURSIVE FlatArgs(_)
FlatArgs(as) ==
    IF as = << >> THEN << >> ELSE <<Head(as)[1], Head(as)[2]>> \o FlatArgs(Tail(as))

\* result_ptr = func(store, *flat_args)
Invoke ==
    /\ pc = "call"
    /\ \E res \in {RunExport(inst, module, func_name, FlatArgs(allocs))} :
          /\ log' = Append(log, Entry(func_name, Len(allocs), 0, res.ptr))
          /\ result_ptr' = res.ptr
          /\ envelope' = res
          /\ inst' = AfterExport(inst, res)
          /\ IF res.trap
             THEN /\ outcome' = Raise("Trap", "", 0)
                  /\ pc' = "finally"
             ELSE IF res.ptr = 0
             THEN /\ outcome' = Raise(ProtocolError(host), "null_result", 0)
                  /\ pc' = "finally"
             ELSE /\ outcome' = outcome
                  /\ pc' = "read"
    /\ UNCHANGED <<host, module, abi_verified, func_name, json_args, argi, allocs,
                   handshakes, first>>
    /\ UNCHANGED convVars
    /\ UNCHANGED extVars

NameContainsRehydrat_never(fn) == FALSE

\* "rehydrat" in func_name.lower(), on the export names of the ABI
NameContainsRehydrat(fn) == fn \in {"jsl_rehydrate"}

\* the exception a status=1 payload is turned into
StatusError(h, fn, payload) ==
    IF h \in Bindings
    THEN IF payload.bytes = "json_list" THEN Raise("AttributeError", "", 0)
         ELSE [Pending EXCEPT !.kind = "raise", !.exc = "JslError",
                              !.code = DictGet(payload.dict, "code", "unknown"),
                              !.message = DictGet(payload.dict, "message", "unknown error"),
                              !.path = DictGet(payload.dict, "path", "")]
    ELSE [Pending EXCEPT !.kind = "raise",
                         !.exc = IF NameContainsRehydrat(fn) THEN "RehydrationError"
                                 ELSE "SchemaConversionError",
                         !.code = IF payload.bytes = "json_list" THEN "unknown"
                                  ELSE DictGet(payload.dict, "code", "unknown"),
                         !.message = IF payload.bytes = "json_list" THEN "str(payload)"
                                     ELSE DictGet(payload.dict, "message",
                                                  "unknown error")]

\* read the JslResult, check the bounds, decode the payload, map the status
Interpret(h, fn, env, mem_size) ==
    IF env.payload_ptr + env.payload_len > mem_size
    THEN Raise(ProtocolError(h), "payload_out_of_bounds", env.payload_ptr)
    ELSE IF env.payload.bytes = "not_utf8" THEN Raise("UnicodeDecodeError", "", 0)
    ELSE IF env.payload.bytes = "not_json" THEN Raise("JSONDecodeError", "", 0)
    ELSE IF env.status = STATUS_ERROR THEN StatusError(h, fn, env.payload)
    ELSE Return(env.payload.dict)

ReadResult ==
    /\ pc = "read"
    /\ outcome' = Interpret(host, func_name, envelope, module.mem)
    /\ pc' = "finally"
    /\ UNCHANGED <<host, module, abi_verified, func_name, json_args, argi, inst,
                   allocs, result_ptr, envelope, log, handshakes, first>>
    /\ UNCHANGED convVars
    /\ UNCHANGED extVars

ResultFreeCalls_none(rp) == << >>

\* finally: if result_ptr != 0: jsl_result_free(store, result_ptr)
ResultFreeCalls(rp) ==
    IF rp # 0 THEN <<Entry("jsl_result_free", rp, 0, 0)>> ELSE << >>

\* finally: for ptr, length in allocs: jsl_free(store, ptr, length)
RECURSIVE FreeCalls(_)
FreeCalls(as) ==
    IF as = << >> THEN << >>
    ELSE <<Entry("jsl_free", Head(as)[1], Head(as)[2], 0)>> \o FreeCalls(Tail(as))

RECURSIVE Replay(_, _)
Replay(i, calls) ==
    IF calls = << >> THEN i
    ELSE LET c == Head(calls)
         IN Replay(IF c.fn = "jsl_result_free" THEN jsl_result_free(i, c.a)
                   ELSE jsl_free(i, c.a, c.b),
                   Tail(calls))

Finally ==
    /\ pc = "finally"
    /\ LET calls == ResultFreeCalls(result_ptr) \o FreeCalls(allocs)
       IN /\ log' = log \o calls
          /\ inst' = Replay(inst, calls)
    /\ pc' = "done"
    /\ UNCHANGED <<host, module, abi_verified, func_name, json_args, argi, allocs,
                   result_ptr, envelope, outcome, handshakes, first>>
    /\ UNCHANGED convVars
    /\ UNCHANGED extVars

\* the first jsl_convert call the engine completed, and whether a different
\* call has completed since
NoCall == [set |-> FALSE, fn |-> "", args |-> << >>, outcome |-> Pending, mixed |-> FALSE]

\* the call has returned or raised; the engine is ready for the next call
Done ==
    /\ pc = "done"
    /\ pc' = "idle"
    /\ first' = IF first.set
                THEN [first EXCEPT !.mixed = @ \/ func_name # first.fn
                                               \/ json_args # first.args]
                ELSE IF func_name = "jsl_convert"
                THEN [set |-> TRUE, fn |-> func_name, args |-> json_args,
                      outcome |-> outcome, mixed |-> FALSE]
                ELSE first
    /\ func_name' = ""
    /\ json_args' = << >>
    /\ argi' = 1
    /\ allocs' = << >>
    /\ result_ptr' = 0
    /\ envelope' = NullResult
    /\ outcome' = Pending
    /\ log' = << >>
    /\ UNCHANGED <<host, module, abi_verified, inst, handshakes>>
    /\ UNCHANGED convVars
    /\ UNCHANGED extVars

Init ==
    /\ host \in Hosts
    /\ module \in Modules
    /\ abi_verified = FALSE
    /\ pc = "idle"
    /\ func_name = ""
    /\ json_args = << >>
    /\ argi = 1
    /\ inst = FreshInstance
    /\ allocs = << >>
    /\ result_ptr = 0
    /\ envelope = NullResult
    /\ outcome = Pending
    /\ log = << >>
    /\ handshakes = 0
    /\ first = NoCall
    /\ root_schema = NoSchema
    /\ walk = << >>
    /\ conv = NoConv
    /\ ExtUnused

Next ==
    \/ \E fn \in Exports : \E args \in ArgLists(fn) : Call(fn, args)
    \/ AllocArg
    \/ Invoke
    \/ ReadResult
    \/ Finally
    \/ Done

Spec == Init /\ [][Next]_vars

----------------------------------------------------------------------------
(* Properties of the hosts                                                  *)

Count(seq, P(_)) == Cardinality({k \in DOMAIN seq : P(seq[k])})

IsResultFree(e) == e.fn = "jsl_result_free"

\* C1: when the export returned a non-zero result pointer, jsl_result_free was
\* called on that pointer exactly once, after the export's call, by the time
\* the call returns or raises; when it returned 0 (or was never reached),
\* jsl_result_free was not called at all.
C1_ResultFreedOnce ==
    pc = "done" =>
        LET ops == {k \in DOMAIN log : log[k].fn \in Exports}
        IN /\ Cardinality(ops) <= 1
           /\ \A k \in ops :
                IF log[k].ret # 0
                THEN /\ Count(log, IsResultFree) = 1
                     /\ \E j \in DOMAIN log :
                            j > k /\ log[j] = Entry("jsl_result_free", log[k].ret, 0, 0)
                ELSE Count(log, IsResultFree) = 0
           /\ ops = {} => Count(log, IsResultFree) = 0

C1_Witness ==
    /\ pc = "done"
    /\ result_ptr # 0
    /\ outcome.kind = "raise"
    /\ outcome.code = "payload_out_of_bounds"
    /\ Count(log, IsResultFree) = 1

\* C2 (as claimed): in SchemaLlmEngine._call_jsl and Engine._call_jsl every
\* buffer jsl_alloc returned is released with jsl_free(ptr, len) exactly once,
\* with its length, by the time the call returns or raises.
C2_ArgsFreedOnce ==
    (pc = "done" /\ host \in Bindings) =>
        \A k \in DOMAIN log :
            (log[k].fn = "jsl_alloc" /\ log[k].ret # 0) =>
                Cardinality({j \in DOMAIN log : log[j].fn = "jsl_alloc"
                                /\ log[j].ret = log[k].ret /\ log[j].a = log[k].a})
                = Cardinality({j \in DOMAIN log :
                                log[j] = Entry("jsl_free", log[k].ret, log[k].a, 0)})

\* C3: in SchemaLlmEngine / Engine no export other than jsl_abi_version is
\* called before a jsl_abi_version call of this engine returned 1; a failed
\* handshake raises RuntimeError having called nothing else and leaves
\* _abi_verified False; a handshake that succeeded is never repeated.
C3_Handshake ==
    host \in Bindings =>
        /\ \A k \in DOMAIN log : log[k].fn # "jsl_abi_version" => handshakes >= 1
        /\ handshakes <= 1
        /\ abi_verified = (handshakes = 1)
        /\ (pc # "idle" /\ handshakes = 0) =>
              /\ pc = "done"
              /\ outcome.kind = "raise" /\ outcome.exc = "RuntimeError"
              /\ ~abi_verified
              /\ log = IF module.has_abi
                       THEN <<Entry("jsl_abi_version", 0, 0, module.abi)>> ELSE << >>
        /\ (pc # "idle" /\ Len(log) > 1) => \A k \in 2..Len(log) : log[k].fn # "jsl_abi_version"

C3_Witness ==
    /\ host \in Bindings
    /\ pc = "alloc"
    /\ abi_verified
    /\ log = << >>
    /\ handshakes = 1

\* C4 (as claimed): _call_jsl returns the decoded payload only when the
\* envelope's status is 0; a status of 1 makes it raise JslError with code,
\* message and path from the payload (defaults unknown / unknown error / "").
C4_PayloadOnlyOnStatusOk ==
    (pc = "done" /\ host \in Bindings /\ result_ptr # 0) =>
        /\ outcome.kind = "return" => envelope.status = STATUS_OK
        /\ (envelope.status = STATUS_ERROR
              /\ envelope.payload_ptr + envelope.payload_len <= module.mem
              /\ envelope.payload.bytes = "json") =>
                /\ outcome.kind = "raise" /\ outcome.exc = "JslError"
                /\ outcome.code = DictGet(envelope.payload.dict, "code", "unknown")
                /\ outcome.message = DictGet(envelope.payload.dict, "message", "unknown error")
                /\ outcome.path = DictGet(envelope.payload.dict, "path", "")

\* C8: every call starts in a fresh instance, and a jsl_convert call with the
\* inputs of the engine's first jsl_convert call has the same outcome as that
\* call, whatever calls were made in between.
C8_Deterministic ==
    /\ (pc = "alloc" /\ argi = 1) => inst = FreshInstance
    /\ (pc = "done" /\ first.set /\ func_name = first.fn /\ json_args = first.args) =>
          outcome = first.outcome

C8_Witness ==
    /\ pc = "done"
    /\ first.set /\ first.mixed
    /\ func_name = first.fn /\ json_args = first.args
    /\ outcome.kind = "return"

----------------------------------------------------------------------------
(* host_verify.py: one store and instance, the exports called directly      *)

\* bounds of the harness: live argument buffers and unclaimed results
MaxBufs == 2
MaxResults == 1

SPACED == <<123, 32, 125>>
BADHEAD == <<255, 254, 123, 125>>
BADTAIL == <<123, 255>>
AbiDocs == {EMPTY, OBJ, SPACED, NOTJSON, BADHEAD, BADTAIL}

ReferenceModules ==
    {[has_abi |-> TRUE, abi |-> 1, alloc0 |-> z, mem |-> MemAbi, ret |-> "reference"] :
        z \in {0, 1}}

\* (ptr, len) pairs a test passes for a buffer argument: null with any
\* length, or a buffer it allocated and wrote
BufferArgs ==
    {<<0, n>> : n \in 0..1} \cup {<<module.alloc0, 0>>}
    \cup {<<a.ptr, a.len>> : a \in inst.live}

\* ptr = jsl_alloc(store, len(data)); memory.write(store, data, ptr)
HvAllocWrite(data) ==
    /\ pc = "harness"
    /\ log = << >>
    /\ inst.results = {}
    /\ Cardinality(inst.live) < MaxBufs
    /\ LET ptr == jsl_alloc(inst, module, Len(data))
       IN /\ inst' = AfterAlloc(inst, ptr, data)
          /\ log' = <<Entry("jsl_alloc", Len(data), 0, ptr)>>
    /\ UNCHANGED <<host, module, abi_verified, pc, func_name, json_args, argi, allocs,
                   result_ptr, envelope, outcome, handshakes, first>>
    /\ UNCHANGED convVars
    /\ UNCHANGED extVars

\* result_ptr = jsl_convert(store, schema_ptr, schema_len, opts_ptr, opts_len)
HvConvert(schema, opts) ==
    /\ pc = "harness"
    /\ log = << >>
    /\ Cardinality(inst.results) < MaxResults
    /\ \E res \in {RunExport(inst, module, "jsl_convert",
                              <<schema[1], schema[2], opts[1], opts[2]>>)} :
          /\ envelope' = res
          /\ result_ptr' = res.ptr
          /\ inst' = AfterExport(inst, res)
          /\ allocs' = <<schema, opts>>
          /\ log' = <<Entry("jsl_convert", 2, 0, res.ptr)>>
    /\ UNCHANGED <<host, module, abi_verified, pc, func_name, json_args, argi,
                   outcome, handshakes, first>>
    /\ UNCHANGED convVars
    /\ UNCHANGED extVars

\* jsl_free(store, ptr, length) on a buffer of the test: its cleanup begins
HvFree(ptr, len) ==
    /\ pc \in {"harness", "cleanup"}
    /\ log = << >>
    /\ inst' = jsl_free(inst, ptr, len)
    /\ log' = <<Entry("jsl_free", ptr, len, 0)>>
    /\ pc' = "cleanup"
    /\ UNCHANGED <<host, module, abi_verified, func_name, json_args, argi, allocs,
                   result_ptr, envelope, outcome, handshakes, first>>
    /\ UNCHANGED convVars
    /\ UNCHANGED extVars

\* jsl_result_free(store, result_ptr) on a result of the test
HvResultFree(rp) ==
    /\ pc \in {"harness", "cleanup"}
    /\ log = << >>
    /\ inst' = jsl_result_free(inst, rp)
    /\ log' = <<Entry("jsl_result_free", rp, 0, 0)>>
    /\ pc' = "cleanup"
    /\ UNCHANGED <<host, module, abi_verified, func_name, json_args, argi, allocs,
                   result_ptr, envelope, outcome, handshakes, first>>
    /\ UNCHANGED convVars
    /\ UNCHANGED extVars

\* test_alloc_zero, test_free_null_guards: jsl_free(ptr, 0) on the pointer of
\* jsl_alloc(0), jsl_free(0, 0), jsl_free(0, n), jsl_result_free(0)
HvNullGuards(fn, p, n) ==
    /\ pc \in {"harness", "cleanup"}
    /\ log = << >>
    /\ IF fn = "jsl_free" THEN p = 0 \/ n = 0 ELSE p = 0 /\ n = 0
    /\ inst' = IF fn = "jsl_free" THEN jsl_free(inst, p, n) ELSE jsl_result_free(inst, p)
    /\ log' = <<Entry(fn, p, n, 0)>>
    /\ UNCHANGED <<host, module, abi_verified, pc, func_name, json_args, argi, allocs,
                   result_ptr, envelope, outcome, handshakes, first>>
    /\ UNCHANGED convVars
    /\ UNCHANGED extVars

\* the test has looked at the outcome of its call; once everything it
\* allocated is released the next test starts
HvNext ==
    /\ pc \in {"harness", "cleanup"}
    /\ log # << >>
    /\ log' = << >>
    /\ allocs' = << >>
    /\ envelope' = NullResult
    /\ result_ptr' = 0
    /\ pc' = IF inst.live = {} /\ inst.results = {} THEN "harness" ELSE pc
    /\ UNCHANGED <<host, module, abi_verified, func_name, json_args, argi, inst,
                   outcome, handshakes, first>>
    /\ UNCHANGED convVars
    /\ UNCHANGED extVars

InitAbi ==
    /\ host = "host_verify"
    /\ module \in ReferenceModules
    /\ abi_verified = FALSE
    /\ pc = "harness"
    /\ func_name = ""
    /\ json_args = << >>
    /\ argi = 1
    /\ inst = FreshInstance
    /\ allocs = << >>
    /\ result_ptr = 0
    /\ envelope = NullResult
    /\ outcome = Pending
    /\ log = << >>
    /\ handshakes = 0
    /\ first = NoCall
    /\ root_schema = NoSchema
    /\ walk = << >>
    /\ conv = NoConv
    /\ ExtUnused

NextAbi ==
    \/ \E d \in AbiDocs : HvAllocWrite(d)
    \/ \E sc \in BufferArgs : \E op \in BufferArgs : HvConvert(sc, op)
    \/ \E a \in inst.live : HvFree(a.ptr, a.len)
    \/ \E r \in inst.results : HvResultFree(r.ptr)
    \/ \E fn \in {"jsl_free", "jsl_result_free"} :
          \E p \in {0, module.alloc0} : \E n \in 0..1 : HvNullGuards(fn, p, n)
    \/ HvNext

SpecAbi == InitAbi /\ [][NextAbi]_vars

----------------------------------------------------------------------------
(* Properties of the exported ABI                                           *)

ConvertCalled == host = "host_verify" /\ log # << >> /\ log[1].fn = "jsl_convert"

\* C5: for every (schema_ptr, schema_len, opts_ptr, opts_len) a test can
\* pass - null with zero or non-zero length, the pointer of alloc(0), buffers
\* holding malformed UTF-8 or unparseable JSON - jsl_convert does not trap and
\* returns a non-zero result pointer to an envelope of status 0 or 1.
C5_ConvertCompletes ==
    ConvertCalled =>
        /\ ~envelope.trap
        /\ ~inst.corrupt
        /\ envelope.ptr # 0
        /\ envelope.status \in {STATUS_OK, STATUS_ERROR}
        /\ envelope \in inst.results

C5_Witness ==
    /\ ConvertCalled
    /\ allocs[1][1] = 0 /\ allocs[1][2] > 0
    /\ envelope.ptr # 0
    /\ envelope.status = STATUS_ERROR

\* the bytes a (ptr, len) argument denotes
ArgBytes(b) ==
    IF b[1] = 0 \/ b[2] = 0 THEN << >>
    ELSE (CHOOSE a \in inst.live : a.ptr = b[1] /\ a.len = b[2]).bytes

NullMismatch(b) == b[1] = 0 /\ b[2] > 0
NotUtf8(b) == ~NullMismatch(b) /\ \E k \in 1..Len(ArgBytes(b)) : ArgBytes(b)[k] \in {254, 255}
NotJson(b) == ~NullMismatch(b) /\ ~NotUtf8(b) /\ StripWs(ArgBytes(b)) # <<123, 125>>

\* the error codes the arguments of the last jsl_convert call deserve
DeservedCodes ==
    (IF NullMismatch(allocs[1]) \/ NullMismatch(allocs[2]) THEN {"invalid_pointer"} ELSE {})
    \cup (IF NotUtf8(allocs[1]) \/ NotUtf8(allocs[2]) THEN {"invalid_utf8"} ELSE {})
    \cup (IF NotJson(allocs[1]) \/ (allocs[2][2] > 0 /\ NotJson(allocs[2]))
          THEN {"json_parse_error"} ELSE {})

\* C6: malformed input gives a status=1 envelope with code and message; the
\* code is invalid_pointer for a null pointer with a length, invalid_utf8
\* (with the byte offset of the first bad byte) for bytes that are not UTF-8
\* in the schema or the options, json_parse_error for UTF-8 that is not JSON.
C6_ErrorCodes ==
    (ConvertCalled /\ DeservedCodes # {}) =>
        /\ envelope.status = STATUS_ERROR
        /\ {"code", "message"} \subseteq DOMAIN envelope.payload.dict
        /\ envelope.payload.dict["code"] \in DeservedCodes
        /\ envelope.payload.dict["code"] = "invalid_utf8" =>
              \E k \in 1..2 :
                  /\ NotUtf8(allocs[k])
                  /\ envelope.payload.offset >= 0
                  /\ ArgBytes(allocs[k])[envelope.payload.offset + 1] \in {254, 255}
                  /\ \A j \in 1..envelope.payload.offset :
                        ArgBytes(allocs[k])[j] \notin {254, 255}

C6_Witness ==
    /\ ConvertCalled
    /\ ~NotUtf8(allocs[1]) /\ ~NotJson(allocs[1])
    /\ NotUtf8(allocs[2])
    /\ envelope.payload.dict["code"] = "invalid_utf8"
    /\ envelope.payload.offset = 1

\* C7: jsl_free(0, 0), jsl_free(0, n), jsl_free(ptr, 0) on the pointer of
\* jsl_alloc(0) and jsl_result_free(0) leave the instance - every live buffer
\* and result, and the allocator's integrity - as it was.
C7_NullFreesAreNoOps ==
    [][(/\ host = "host_verify"
        /\ log = << >> /\ log' # << >>
        /\ \/ log'[1].fn = "jsl_free" /\ (log'[1].a = 0 \/ log'[1].b = 0)
           \/ log'[1].fn = "jsl_result_free" /\ log'[1].a = 0)
       => inst' = inst]_vars

C7_Witness ==
    /\ host = "host_verify"
    /\ log = <<Entry("jsl_free", 0, 1, 0)>>
    /\ inst.live # {}
    /\ inst.results # {}
    /\ ~inst.corrupt

----------------------------------------------------------------------------
(* Reference resolver and the converter's $ref pass                         *)

DefaultRecursionLimit == 3
DefaultMaxDepth == 50

\* nesting allowed by the small max-depth option tried
SmallDepth == 3

REF_A == "#/$defs/A"
REF_B == "#/$defs/B"
REF_MISSING == "#/$defs/Missing"
DefRefs == {REF_A, REF_B}
Refs == DefRefs \cup {REF_MISSING}
RefOrder == <<REF_A, REF_B, REF_MISSING>>

\* a document: the $ref strings of the root outside $defs, and of each $defs
\* entry; the request's recursion-limit and max-depth
Schemas ==
    [root : SUBSET Refs, defs : [DefRefs -> SUBSET Refs],
     recursion_limit : {0, 1, DefaultRecursionLimit},
     max_depth : {SmallDepth, DefaultMaxDepth}]

\* the $ref children of a node, in document order
InDocOrder(refs) == SelectSeq(RefOrder, LAMBDA r : r \in refs)

\* pre-pass: the flat table of every $defs entry, keyed by reference string
RefTable(sch) == DOMAIN sch.defs

Resolves_lenient(sch, r) == TRUE

\* resolution is table lookup
Resolves(sch, r) == r \in RefTable(sch)

\* the resolution stack: the references being inlined, outermost first
ResolutionStack(w) == [k \in 1..(Len(w) - 1) |-> w[k + 1].ref]

Occurrences(stack, r) == Cardinality({k \in DOMAIN stack : stack[k] = r})

\* seeing a member of the resolution stack is a cycle
IsBackEdge(stack, r) == \E k \in DOMAIN stack : stack[k] = r

AtLimit_never(stack, r, limit) == FALSE

\* the back-edge has been inlined up to recursion-limit
AtLimit(stack, r, limit) == IsBackEdge(stack, r) /\ Occurrences(stack, r) >= limit

Frame(r, sch) ==
    [ref |-> r, todo |-> InDocOrder(IF r \in DOMAIN sch.defs THEN sch.defs[r] ELSE {})]

NoEncounter == [ref |-> "", class |-> "", action |-> "", depth |-> 0]

\* convert begins: empty codec, every reference UNRESOLVED
ConvStart(sch) ==
    [status |-> "run", code |-> "", path |-> << >>,
     inline_ref |-> 0, truncate_recursion |-> 0,
     state |-> [r \in Refs |-> "UNRESOLVED"],
     last |-> NoEncounter]

AfterPop(w, st) ==
    LET r == w[Len(w)].ref
        rest == SubSeq(w, 1, Len(w) - 1)
    IN [st EXCEPT ![r] = IF IsBackEdge(ResolutionStack(rest), r)
                         THEN "IN-PROGRESS" ELSE "RESOLVED"]

\* one step of the walk: leave a finished node, or classify the next $ref
ConvStep ==
    /\ conv.status = "run"
    /\ LET top == walk[Len(walk)]
           stack == ResolutionStack(walk)
       IN IF top.todo = << >>
          THEN IF Len(walk) = 1
               THEN /\ conv' = [conv EXCEPT !.status = "ok", !.last = NoEncounter]
                    /\ walk' = walk
               ELSE /\ conv' = [conv EXCEPT !.state = AfterPop(walk, @),
                                            !.last = NoEncounter]
                    /\ walk' = SubSeq(walk, 1, Len(walk) - 1)
          ELSE LET r == Head(top.todo)
                   w1 == [walk EXCEPT ![Len(walk)].todo = Tail(@)]
                   class == IF IsBackEdge(stack, r) THEN "back_edge" ELSE "resolved"
               IN IF ~Resolves(root_schema, r)
                  THEN /\ conv' = [conv EXCEPT !.status = "error",
                                               !.code = "unresolvable_ref",
                                               !.path = Append(stack, r),
                                               !.last = [ref |-> r, class |-> "unresolvable",
                                                         action |-> "error",
                                                         depth |-> Occurrences(stack, r)]]
                       /\ walk' = w1
                  ELSE IF AtLimit(stack, r, root_schema.recursion_limit)
                  THEN /\ conv' = [conv EXCEPT !.truncate_recursion = @ + 1,
                                               !.last = [ref |-> r, class |-> class,
                                                         action |-> "truncate",
                                                         depth |-> Occurrences(stack, r)]]
                       /\ walk' = w1
                  ELSE IF Len(stack) >= root_schema.max_depth
                  THEN /\ conv' = [conv EXCEPT !.status = "error",
                                               !.code = "recursion_depth_exceeded",
                                               !.path = Append(stack, r),
                                               !.last = [ref |-> r, class |-> class,
                                                         action |-> "error",
                                                         depth |-> Occurrences(stack, r)]]
                       /\ walk' = w1
                  ELSE /\ conv' = [conv EXCEPT !.inline_ref = @ + 1,
                                               !.state[r] = "IN-PROGRESS",
                                               !.last = [ref |-> r, class |-> class,
                                                         action |-> "inline",
                                                         depth |-> Occurrences(stack, r)]]
                       /\ walk' = Append(w1, Frame(r, root_schema))
    /\ UNCHANGED <<host, module, abi_verified, pc, func_name, json_args, argi, inst,
                   allocs, result_ptr, envelope, outcome, log, handshakes, first,
                   root_schema>>
    /\ UNCHANGED extVars

InitConv ==
    /\ host = "converter"
    /\ module \in {m \in ReferenceModules : m.alloc0 = 1}
    /\ abi_verified = FALSE
    /\ pc = "convert"
    /\ func_name = "jsl_convert"
    /\ json_args = << >>
    /\ argi = 1
    /\ inst = FreshInstance
    /\ allocs = << >>
    /\ result_ptr = 0
    /\ envelope = NullResult
    /\ outcome = Pending
    /\ log = << >>
    /\ handshakes = 0
    /\ first = NoCall
    /\ root_schema \in Schemas
    /\ walk = <<[ref |-> "#", todo |-> InDocOrder(root_schema.root)]>>
    /\ conv = ConvStart(root_schema)
    /\ ExtUnused

NextConv == ConvStep

\* an entry point runs to completion on the caller's thread
SpecConv == InitConv /\ [][NextConv]_vars /\ WF_vars(ConvStep)

----------------------------------------------------------------------------
(* Properties of the resolver and the converter                             *)

Converting == host = "converter"

\* how often the reference is being inlined through a back-edge on the
\* current path: every occurrence on the resolution stack but the first
BackEdgeInlines(r) ==
    LET n == Occurrences(ResolutionStack(walk), r) IN IF n = 0 THEN 0 ELSE n - 1

LinkedList(sch) ==
    /\ sch.root = {REF_A}
    /\ sch.defs[REF_A] = {REF_A}
    /\ sch.recursion_limit = DefaultRecursionLimit

\* C9: conversion terminates for every schema; on the way no back-edge is
\* inlined more than recursion-limit times, a reference at the limit is
\* replaced by the placeholder with a truncate_recursion transform recorded,
\* and the only errors of the $ref pass are unresolvable_ref and
\* recursion_depth_exceeded.
C9_Terminates ==
    /\ [](Converting =>
            /\ \A r \in Refs : BackEdgeInlines(r) <= root_schema.recursion_limit
            /\ conv.last.action = "truncate" =>
                  /\ conv.last.class = "back_edge"
                  /\ conv.last.depth >= root_schema.recursion_limit
                  /\ conv.truncate_recursion >= 1
            /\ conv.status = "error" =>
                  conv.code \in {"unresolvable_ref", "recursion_depth_exceeded"})
    /\ <>(Converting => conv.status \in {"ok", "error"})

C9_Witness ==
    /\ Converting
    /\ LinkedList(root_schema)
    /\ conv.status = "ok"
    /\ conv.inline_ref = 3
    /\ conv.truncate_recursion = 1

RECURSIVE Closure(_, _)
Closure(sch, seen) ==
    LET more == UNION {sch.defs[r] : r \in seen \cap DOMAIN sch.defs}
    IN IF more \subseteq seen THEN seen ELSE Closure(sch, seen \cup more)

\* the references reachable from the root
Reachable(sch) == Closure(sch, sch.root)

\* C10: every reference the walk meets resolves to a node, is a back-edge
\* (already IN-PROGRESS on the resolution stack), or ends the conversion with
\* unresolvable_ref and a path; a successful conversion leaves every
\* reachable reference RESOLVED, none UNRESOLVED or dropped.
C10_RefOutcomes ==
    Converting =>
        /\ conv.last.ref # "" =>
              \/ /\ conv.last.class = "resolved"
                 /\ conv.last.ref \in DOMAIN root_schema.defs
                 /\ conv.last.depth = 0
              \/ /\ conv.last.class = "back_edge"
                 /\ conv.last.ref \in DOMAIN root_schema.defs
                 /\ conv.state[conv.last.ref] = "IN-PROGRESS"
                 /\ conv.last.depth >= 1
              \/ /\ conv.last.class = "unresolvable"
                 /\ conv.last.ref \notin DOMAIN root_schema.defs
                 /\ conv.status = "error" /\ conv.code = "unresolvable_ref"
        /\ conv.status = "ok" =>
              \A r \in Reachable(root_schema) :
                  r \in DOMAIN root_schema.defs /\ conv.state[r] = "RESOLVED"
        /\ (conv.status = "error" /\ conv.code = "unresolvable_ref") =>
              /\ conv.path # << >>
              /\ conv.path[Len(conv.path)] \in Reachable(root_schema)
              /\ conv.path[Len(conv.path)] \notin DOMAIN root_schema.defs
        /\ (\E r \in Reachable(root_schema) : r \notin DOMAIN root_schema.defs) =>
              conv.status # "ok"

C10_Witness ==
    /\ Converting
    /\ conv.status = "ok"
    /\ Reachable(root_schema) = DefRefs
    /\ root_schema.root = {REF_A}
    /\ conv.truncate_recursion >= 1
    /\ \A r \in DefRefs : conv.state[r] = "RESOLVED"

----------------------------------------------------------------------------
(* Round trip: convert an object schema for a strict target, let the       *)
(* provider answer with a document of the converted schema, rehydrate      *)

\* the properties of the schema of test_roundtrip / test_rehydrate_simple
Props == {"name", "age"}
PropOrder == <<"name", "age">>
PropType == [k \in Props |-> IF k = "name" THEN "string" ELSE "integer"]

\* JSON values a document may hold: two strings, two integers, null
Values == {"Ada", "zz", "36", "-1", "null"}
JsonType(v) ==
    IF v = "null" THEN "null" ELSE IF v \in {"36", "-1"} THEN "integer" ELSE "string"

\* keyword checks: minimum 0 on integers, the pattern ^A on strings
MeetsMinimum(v) == v # "-1"
MeetsPattern(v) == v # "zz"

\* object schemas: which properties are required, which admit null, which
\* carry a minimum (kept by the target) or a pattern (dropped by it)
ObjectSchemas ==
    {[required |-> req, nullable |-> nul, minimum |-> mn, pattern |-> pt,
      additional |-> TRUE] :
        req \in SUBSET Props, nul \in SUBSET Props,
        mn \in SUBSET {"age"}, pt \in SUBSET {"name"}}

\* documents: objects over the properties and one key no schema names
Documents ==
    UNION {[K -> Values] : K \in SUBSET (Props \cup {"extra"})}

\* d conforms to sch, the constraints of `dropped` (<<key, keyword>>) aside
ConformsModulo(d, sch, dropped) ==
    /\ sch.required \subseteq DOMAIN d
    /\ sch.additional \/ DOMAIN d \subseteq Props
    /\ \A k \in DOMAIN d \cap Props :
          /\ \/ JsonType(d[k]) = PropType[k]
             \/ JsonType(d[k]) = "null" /\ k \in sch.nullable
          /\ (k \in sch.minimum /\ <<k, "minimum">> \notin dropped
                /\ JsonType(d[k]) = "integer") => MeetsMinimum(d[k])
          /\ (k \in sch.pattern /\ <<k, "pattern">> \notin dropped
                /\ JsonType(d[k]) = "string") => MeetsPattern(d[k])

Conforms(d, sch) == ConformsModulo(d, sch, {})

\* pass 5 on one property list: a promote transform per optional key
RECURSIVE PromoteOptional(_, _)
PromoteOptional(keys, sch) ==
    IF keys = << >> THEN << >>
    ELSE (IF Head(keys) \in sch.required THEN << >>
          ELSE <<[op |-> "promote_optional_to_required_with_null",
                  key |-> Head(keys)]>>)
         \o PromoteOptional(Tail(keys), sch)

\* convert(S) for a strict target: passes 5 and 6 of the tree rewriter
ConvertObject(sch) ==
    [schema |-> [required |-> Props,
                 nullable |-> sch.nullable \cup (Props \ sch.required),
                 minimum |-> sch.minimum,
                 pattern |-> {},
                 additional |-> FALSE],
     codec |-> [transforms |->
                    <<[op |-> "synthesize_additional_properties_false", key |-> ""]>>
                    \o PromoteOptional(PropOrder, sch),
                droppedConstraints |-> {<<k, "pattern">> : k \in sch.pattern}]]

InverseOf_keep_null(t, d) == d

\* the inverse of one transform on the data
InverseOf(t, d) ==
    IF t.op = "promote_optional_to_required_with_null"
       /\ t.key \in DOMAIN d /\ d[t.key] = "null"
    THEN [k \in DOMAIN d \ {t.key} |-> d[k]]
    ELSE d

\* rehydrate: walk the transform list in reverse
RECURSIVE Rehydrate(_, _)
Rehydrate(d, transforms) ==
    IF transforms = << >> THEN d
    ELSE Rehydrate(InverseOf(transforms[Len(transforms)], d),
                   SubSeq(transforms, 1, Len(transforms) - 1))

DataChanging(codec) ==
    \E n \in 1..Len(codec.transforms) :
        codec.transforms[n].op = "promote_optional_to_required_with_null"

RtConvert ==
    /\ rt.pc = "convert"
    /\ rt' = [rt EXCEPT !.pc = "provider", !.converted = ConvertObject(rt.S)]
    /\ UNCHANGED <<hostVars, convVars, auxVars, convert_options, gen, val, run, fmt>>

\* the provider answers with any document of the converted schema
RtProvider(d) ==
    /\ rt.pc = "provider"
    /\ Conforms(d, rt.converted.schema)
    /\ rt' = [rt EXCEPT !.pc = "rehydrate", !.D = d]
    /\ UNCHANGED <<hostVars, convVars, auxVars, convert_options, gen, val, run, fmt>>

RtRehydrate ==
    /\ rt.pc = "rehydrate"
    /\ rt' = [rt EXCEPT !.pc = "done",
                        !.data = Rehydrate(rt.D, rt.converted.codec.transforms)]
    /\ UNCHANGED <<hostVars, convVars, auxVars, convert_options, gen, val, run, fmt>>

NoDocument == [k \in {} |-> "null"]

\* before convert ran: the schema as given and an empty codec
NotConverted(sch) ==
    [schema |-> sch, codec |-> [transforms |-> << >>, droppedConstraints |-> {}]]

InitRt ==
    /\ host = "roundtrip"
    /\ module \in {m \in ReferenceModules : m.alloc0 = 1}
    /\ abi_verified = FALSE
    /\ pc = "roundtrip"
    /\ func_name = ""
    /\ json_args = << >>
    /\ argi = 1
    /\ inst = FreshInstance
    /\ allocs = << >>
    /\ result_ptr = 0
    /\ envelope = NullResult
    /\ outcome = Pending
    /\ log = << >>
    /\ handshakes = 0
    /\ first = NoCall
    /\ root_schema = NoSchema
    /\ walk = << >>
    /\ conv = NoConv
    /\ AuxUnused
    /\ convert_options = Unused
    /\ \E sch \in ObjectSchemas :
          rt = [pc |-> "convert", S |-> sch, converted |-> NotConverted(sch),
                D |-> NoDocument, data |-> NoDocument]
    /\ gen = Unused
    /\ val = Unused
    /\ run = Unused
    /\ fmt = Unused

NextRt ==
    \/ RtConvert
    \/ \E d \in Documents : RtProvider(d)
    \/ RtRehydrate

SpecRt == InitRt /\ [][NextRt]_vars

----------------------------------------------------------------------------
(* Convert options: the options buffer of jsl_convert and its parse         *)

OptionKeys == {"target", "mode", "max-depth", "recursion-limit"}

\* a field of ConvertOptions left at None
NoneStr == "None"
NoneInt == -1

\* ConvertOptions objects (max_depth 5, 10 and recursion_limit 5 are the
\* values of the tests)
ConvertOptions ==
    [target : {NoneStr, "openai-strict", "gemini", "claude"},
     mode : {NoneStr, "strict", "lenient"},
     max_depth : {NoneInt, 5, 10},
     recursion_limit : {NoneInt, 0, 5}]

\* ConvertOptions.to_dict: the keys of the options object on the wire
to_dict(o) ==
    (IF o.target # NoneStr THEN {"target"} ELSE {})
    \cup (IF o.mode # NoneStr THEN {"mode"} ELSE {})
    \cup (IF o.max_depth # NoneInt THEN {"max-depth"} ELSE {})
    \cup (IF o.recursion_limit # NoneInt THEN {"recursion-limit"} ELSE {})

NoOptions ==
    [target |-> NoneStr, mode |-> NoneStr, max_depth |-> NoneInt,
     recursion_limit |-> NoneInt]

DefaultOptions ==
    [target |-> "openai-strict", mode |-> "strict", max_depth |-> DefaultMaxDepth,
     recursion_limit |-> DefaultRecursionLimit]

\* the options an object gives, defaults for the keys it leaves out
Over(o) ==
    [target |-> IF o.target # NoneStr THEN o.target ELSE DefaultOptions.target,
     mode |-> IF o.mode # NoneStr THEN o.mode ELSE DefaultOptions.mode,
     max_depth |-> IF o.max_depth # NoneInt THEN o.max_depth
                   ELSE DefaultOptions.max_depth,
     recursion_limit |-> IF o.recursion_limit # NoneInt THEN o.recursion_limit
                         ELSE DefaultOptions.recursion_limit]

\* the options buffer: (0,0), "{}", "{  }" or an object with some keys
OptionBuffers ==
    {[form |-> fm, object |-> NoOptions] : fm \in {"null", "empty", "padded"}}
    \cup {[form |-> "object", object |-> o] : o \in ConvertOptions \ {NoOptions}}

\* jsl_convert's reading of the options buffer: defaults for (0,0) and for
\* the empty object; an object is deserialized and must give `target`
parse_options(buf) ==
    IF buf.form \in {"null", "empty", "padded"}
    THEN [status |-> STATUS_OK, code |-> "", options |-> DefaultOptions]
    ELSE IF "target" \notin to_dict(buf.object)
    THEN [status |-> STATUS_ERROR, code |-> "invalid_input", options |-> DefaultOptions]
    ELSE [status |-> STATUS_OK, code |-> "", options |-> Over(buf.object)]

HvConvertOptions ==
    /\ convert_options.pc = "call"
    /\ convert_options' = [convert_options EXCEPT
                              !.pc = "done",
                              !.result = parse_options(convert_options.buffer)]
    /\ UNCHANGED <<hostVars, convVars, auxVars, rt, gen, val, run, fmt>>

InitOpts ==
    /\ host = "host_verify"
    /\ module \in {m \in ReferenceModules : m.alloc0 = 1}
    /\ abi_verified = FALSE
    /\ pc = "options"
    /\ func_name = "jsl_convert"
    /\ json_args = << >>
    /\ argi = 1
    /\ inst = FreshInstance
    /\ allocs = << >>
    /\ result_ptr = 0
    /\ envelope = NullResult
    /\ outcome = Pending
    /\ log = << >>
    /\ handshakes = 0
    /\ first = NoCall
    /\ root_schema = NoSchema
    /\ walk = << >>
    /\ conv = NoConv
    /\ AuxUnused
    /\ \E buf \in OptionBuffers :
          convert_options = [pc |-> "call", buffer |-> buf,
                             result |-> [status |-> STATUS_OK, code |-> "",
                                         options |-> DefaultOptions]]
    /\ rt = Unused
    /\ gen = Unused
    /\ val = Unused
    /\ run = Unused
    /\ fmt = Unused

NextOpts == HvConvertOptions

SpecOpts == InitOpts /\ [][NextOpts]_vars

\* C12: every convert option is optional: jsl_convert succeeds, with the
\* documented default for each key the buffer does not give, for (0,0), for
\* the empty object (also whitespace-padded) and for an object that gives
\* only some of the keys.
C12_OptionsOptional ==
    convert_options.pc = "done" =>
        /\ convert_options.result.status = STATUS_OK
        /\ convert_options.result.options = Over(convert_options.buffer.object)

----------------------------------------------------------------------------
(* LlmRoundtripEngine.generate / generate_with_preconverted                 *)

\* json.dumps(v) / json.loads(text): the text of a value and back
Dumps(v) == [json |-> v]
Loads(text) == text.json

\* the original schema texts a caller passes
SchemaJsons == {Dumps("person"), Dumps("order")}

\* what _call_wasi("jsl_convert", ...) can return: an object with or
\* without the keys schema and codec
ConvertResults ==
    {[k \in K |-> IF k = "schema" THEN "llm_schema" ELSE "codec"] :
        K \in SUBSET {"schema", "codec"}}

\* what _call_wasi("jsl_rehydrate", ...) can return
RehydrateResults ==
    {[k \in K |-> IF k = "data" THEN "rehydrated" ELSE "warned"] :
        K \in SUBSET {"data", "warnings"}}

\* d.get(key, default)
Get(d, key, default) == IF key \in DOMAIN d THEN d[key] ELSE default

\* what a collaborator does when called: "ok", or the exception it raises
Behaviours ==
    [convert : {"ok", "SchemaConversionError"},
     format : {"ok", "ValueError"},
     execute : {"ok", "LlmTransportError"},
     extract_content : {"ok", "ResponseParsingError", "KeyError"},
     rehydrate : {"ok", "RehydrationError"},
     validate : {"ok", "JSONDecodeError"},
     raw_is_json : BOOLEAN]

NoCalls == << >>

GenCall(fn, args) == [fn |-> fn, args |-> args]

GenRaise(g, exc) == [g EXCEPT !.pc = "raised", !.raised = exc]

\* exceptions of extract_content: ResponseParsingError passes, any other
\* exception is wrapped into ResponseParsingError
ExtractRaises(exc) == "ResponseParsingError"

llm_schema_of_original(g, convert_result) == Loads(g.schema_json)

\* llm_schema = convert_result.get("schema", {})
llm_schema_of(g, convert_result) == Get(convert_result, "schema", "{}")

\* Step 1: convert_result = self._call_wasi("jsl_convert", schema_json, "{}")
GenConvert(convert_result) ==
    /\ gen.pc = "convert"
    /\ \E g \in {[gen EXCEPT !.calls = Append(@, GenCall("jsl_convert",
                                                  <<gen.schema_json, Dumps("{}")>>))]} :
          IF gen.does.convert # "ok"
          THEN gen' = GenRaise(g, gen.does.convert)
          ELSE gen' = [g EXCEPT !.pc = "format",
                                !.convert_result = convert_result,
                                !.llm_schema = llm_schema_of(g, convert_result),
                                !.codec_json =
                                    Dumps(Get(convert_result, "codec", "{}"))]
    /\ UNCHANGED <<hostVars, convVars, auxVars, convert_options, rt, val, run, fmt>>

\* Step 2: request = formatter.format(prompt, llm_schema, config)
GenFormat ==
    /\ gen.pc = "format"
    /\ \E g \in {[gen EXCEPT !.calls = Append(@, GenCall("format",
                                                  <<Dumps(gen.llm_schema)>>))]} :
          IF gen.does.format # "ok"
          THEN gen' = GenRaise(g, gen.does.format)
          ELSE gen' = [g EXCEPT !.pc = "execute"]
    /\ UNCHANGED <<hostVars, convVars, auxVars, convert_options, rt, val, run, fmt>>

\* Step 3: raw_response = transport.execute(request)
GenExecute ==
    /\ gen.pc = "execute"
    /\ \E g \in {[gen EXCEPT !.calls = Append(@, GenCall("execute",
                                                  <<Dumps("request")>>))]} :
          IF gen.does.execute # "ok"
          THEN gen' = GenRaise(g, gen.does.execute)
          ELSE gen' = [g EXCEPT !.pc = "extract_content"]
    /\ UNCHANGED <<hostVars, convVars, auxVars, convert_options, rt, val, run, fmt>>

\* Step 4: content = formatter.extract_content(raw_response)
GenExtract ==
    /\ gen.pc = "extract_content"
    /\ \E g \in {[gen EXCEPT !.calls = Append(@, GenCall("extract_content",
                                                  <<Dumps("raw_response")>>))]} :
          IF gen.does.extract_content # "ok"
          THEN gen' = GenRaise(g, ExtractRaises(gen.does.extract_content))
          ELSE gen' = [g EXCEPT !.pc = "rehydrate", !.content = Dumps("content")]
    /\ UNCHANGED <<hostVars, convVars, auxVars, convert_options, rt, val, run, fmt>>

\* Step 5: self._call_wasi("jsl_rehydrate", content, codec_json, schema_json)
GenRehydrate(rehydrate_result) ==
    /\ gen.pc = "rehydrate"
    /\ \E g \in {[gen EXCEPT !.calls = Append(@, GenCall("jsl_rehydrate",
                                 <<gen.content, gen.codec_json, gen.schema_json>>))]} :
          IF gen.does.rehydrate # "ok"
          THEN gen' = GenRaise(g, gen.does.rehydrate)
          ELSE gen' = [g EXCEPT !.pc = "validate",
                                !.rehydrated_data =
                                    Get(rehydrate_result, "data", "{}")]
    /\ UNCHANGED <<hostVars, convVars, auxVars, convert_options, rt, val, run, fmt>>

\* Step 6: validation_errors = self._validate(rehydrated_data, schema_json)
GenValidate ==
    /\ gen.pc = "validate"
    /\ \E g \in {[gen EXCEPT !.calls = Append(@, GenCall("validate",
                                 <<Dumps(gen.rehydrated_data), gen.schema_json>>))]} :
          IF gen.does.validate # "ok"
          THEN gen' = GenRaise(g, gen.does.validate)
          ELSE gen' = [g EXCEPT !.pc = "return"]
    /\ UNCHANGED <<hostVars, convVars, auxVars, convert_options, rt, val, run, fmt>>

\* return RoundtripResult(..., raw_llm_response=json.loads(raw_response), ...)
GenReturn ==
    /\ gen.pc = "return"
    /\ gen' = IF gen.does.raw_is_json THEN [gen EXCEPT !.pc = "returned"]
              ELSE GenRaise(gen, "JSONDecodeError")
    /\ UNCHANGED <<hostVars, convVars, auxVars, convert_options, rt, val, run, fmt>>

InitGen ==
    /\ host = "LlmRoundtripEngine"
    /\ module \in {m \in ReferenceModules : m.alloc0 = 1}
    /\ abi_verified = FALSE
    /\ pc = "generate"
    /\ func_name = ""
    /\ json_args = << >>
    /\ argi = 1
    /\ inst = FreshInstance
    /\ allocs = << >>
    /\ result_ptr = 0
    /\ envelope = NullResult
    /\ outcome = Pending
    /\ log = << >>
    /\ handshakes = 0
    /\ first = NoCall
    /\ root_schema = NoSchema
    /\ walk = << >>
    /\ conv = NoConv
    /\ AuxUnused
    /\ convert_options = Unused
    /\ rt = Unused
    /\ \E sj \in SchemaJsons, b \in Behaviours,
          entry \in {"generate", "generate_with_preconverted"} :
          gen = [pc |-> IF entry = "generate" THEN "convert" ELSE "format",
                 entry |-> entry, does |-> b, schema_json |-> sj,
                 convert_result |-> [k \in {} |-> ""],
                 llm_schema |-> "llm_schema", codec_json |-> Dumps("codec"),
                 content |-> Dumps(""), rehydrated_data |-> "",
                 calls |-> NoCalls, raised |-> ""]
    /\ val = Unused
    /\ run = Unused
    /\ fmt = Unused

NextGen ==
    \/ \E cr \in ConvertResults : GenConvert(cr)
    \/ GenFormat
    \/ GenExecute
    \/ GenExtract
    \/ \E rr \in RehydrateResults : GenRehydrate(rr)
    \/ GenValidate
    \/ GenReturn

SpecGen == InitGen /\ [][NextGen]_vars

\* the steps of generate in their order
GenOrder ==
    <<"jsl_convert", "format", "execute", "extract_content", "jsl_rehydrate",
      "validate">>

GenCalled == [n \in 1..Len(gen.calls) |-> gen.calls[n].fn]

\* C13: generate runs convert, format, transport.execute, extract_content,
\* rehydrate, validate in this order, each at most once and only after the
\* previous one succeeded: jsl_convert gets (schema_json, "{}"), format gets
\* the convert result's schema, jsl_rehydrate gets (content, codec, original
\* schema), and the step that fails is the last one called.
C13_GenerateOrder ==
    gen.entry = "generate" =>
        /\ Len(gen.calls) <= Len(GenOrder)
        /\ GenCalled = SubSeq(GenOrder, 1, Len(gen.calls))
        /\ \A n \in 1..Len(gen.calls) :
              /\ n < Len(gen.calls) => gen.does[
                    IF gen.calls[n].fn = "jsl_convert" THEN "convert"
                    ELSE IF gen.calls[n].fn = "jsl_rehydrate" THEN "rehydrate"
                    ELSE gen.calls[n].fn] = "ok"
              /\ gen.calls[n].fn = "jsl_convert" =>
                    gen.calls[n].args = <<gen.schema_json, Dumps("{}")>>
              /\ gen.calls[n].fn = "format" =>
                    gen.calls[n].args =
                        <<Dumps(Get(gen.convert_result, "schema", "{}"))>>
              /\ gen.calls[n].fn = "jsl_rehydrate" =>
                    gen.calls[n].args =
                        <<gen.content,
                          Dumps(Get(gen.convert_result, "codec", "{}")),
                          gen.schema_json>>
        /\ gen.pc = "raised" /\ gen.calls # << >> /\ Len(gen.calls) < Len(GenOrder) =>
              gen.does[IF gen.calls[Len(gen.calls)].fn = "jsl_convert" THEN "convert"
                       ELSE IF gen.calls[Len(gen.calls)].fn = "jsl_rehydrate"
                       THEN "rehydrate"
                       ELSE gen.calls[Len(gen.calls)].fn] # "ok"
        /\ gen.pc = "returned" => GenCalled = GenOrder

C13_Witness ==
    /\ gen.entry = "generate"
    /\ gen.pc = "returned"
    /\ GenCalled = GenOrder
    /\ "schema" \in DOMAIN gen.convert_result

----------------------------------------------------------------------------
(* LlmRoundtripEngine._call_wasi: the exception of a status=1 envelope      *)

\* the payload of the envelope was read and decoded by the host
PayloadDecoded ==
    /\ result_ptr # 0
    /\ envelope.payload_ptr + envelope.payload_len <= module.mem
    /\ envelope.payload.bytes \in {"json", "json_list"}

\* C14: _call_wasi turns a status=1 envelope into RehydrationError when the
\* export's name contains "rehydrat" and into SchemaConversionError
\* otherwise, with the payload's code (unknown when it has none) in the
\* message; a status=1 payload is never returned.
C14_StatusErrorByOperation ==
    (pc = "done" /\ host = "LlmRoundtripEngine") =>
        /\ (outcome.kind = "return" /\ result_ptr # 0) =>
              envelope.status # STATUS_ERROR
        /\ (PayloadDecoded /\ envelope.status = STATUS_ERROR) =>
              /\ outcome.kind = "raise"
              /\ func_name = "jsl_rehydrate" => outcome.exc = "RehydrationError"
              /\ func_name = "jsl_convert" => outcome.exc = "SchemaConversionError"
              /\ outcome.code =
                    IF envelope.payload.bytes = "json"
                       /\ "code" \in DOMAIN envelope.payload.dict
                    THEN envelope.payload.dict["code"] ELSE "unknown"

C14_Witness ==
    /\ pc = "done" /\ host = "LlmRoundtripEngine"
    /\ PayloadDecoded /\ envelope.status = STATUS_ERROR
    /\ func_name = "jsl_rehydrate"
    /\ outcome.exc = "RehydrationError"
    /\ outcome.code = "json_parse_error"

----------------------------------------------------------------------------
(* LlmRoundtripEngine._validate                                             *)

\* schema texts: not JSON, JSON that is no valid schema ({"type":
\* "invalid_type_value"}), a schema whose type the validator does not know
\* when it meets it, and valid object schemas
ValidSchemas == {sch \in ObjectSchemas : sch.nullable = {} /\ sch.pattern = {}}

SchemaTexts ==
    {[kind |-> k, schema |-> CHOOSE sch \in ValidSchemas : sch.required = {}
                                                            /\ sch.minimum = {}] :
        k \in {"not_json", "invalid_schema", "unknown_type"}}
    \cup {[kind |-> "valid", schema |-> sch] : sch \in ValidSchemas}

\* the data handed to _validate: objects over the schema's properties
ValidateData == UNION {[K -> Values] : K \in SUBSET Props}

\* the errors validator.iter_errors(data) yields: one per violated keyword
iter_errors(sch, d) ==
    {<<k, "required">> : k \in sch.required \ DOMAIN d}
    \cup {<<k, "type">> : k \in {p \in DOMAIN d : JsonType(d[p]) # PropType[p]}}
    \cup {<<k, "minimum">> :
            k \in {p \in DOMAIN d \cap sch.minimum :
                      JsonType(d[p]) = "integer" /\ ~MeetsMinimum(d[p])}}

\* which of the import statements fails, if any
Imports == {"ok", "no_jsonschema", "no_jsonschema_exceptions"}

NoResult == [kind |-> "none", errors |-> {}, exc |-> ""]

ExceptReturnsEmpty_any(exc) == TRUE

\* except ImportError: return []
ExceptReturnsEmpty(exc) == exc = "ImportError"

\* except (SchemaError, UnknownType) as e: return ["Schema validation error: ..."]
ExceptReturnsSchemaError(exc) == exc \in {"SchemaError", "UnknownType"}

\* the except clauses of _validate applied to an exception of the try body
ValidateExcept(exc) ==
    IF ExceptReturnsEmpty(exc) THEN [kind |-> "return", errors |-> {}, exc |-> ""]
    ELSE IF ExceptReturnsSchemaError(exc)
    THEN [kind |-> "return", errors |-> {<<"Schema validation error", exc>>},
          exc |-> ""]
    ELSE [kind |-> "raise", errors |-> {}, exc |-> exc]

ValidateLeaves(result) == [val EXCEPT !.pc = "done", !.result = result]

\* import jsonschema; import jsonschema.exceptions
ValImport ==
    /\ val.pc = "import"
    /\ val' = IF val.imports = "ok" THEN [val EXCEPT !.pc = "loads"]
              ELSE ValidateLeaves(ValidateExcept("ImportError"))
    /\ UNCHANGED <<hostVars, convVars, auxVars, convert_options, rt, gen, run, fmt>>

\* schema = json.loads(schema_json)
ValLoads ==
    /\ val.pc = "loads"
    /\ val' = IF val.schema_json.kind # "not_json"
              THEN [val EXCEPT !.pc = "check_schema"]
              ELSE ValidateLeaves(ValidateExcept("JSONDecodeError"))
    /\ UNCHANGED <<hostVars, convVars, auxVars, convert_options, rt, gen, run, fmt>>

\* jsonschema.Draft202012Validator.check_schema(schema)
ValCheckSchema ==
    /\ val.pc = "check_schema"
    /\ val' = IF val.schema_json.kind # "invalid_schema"
              THEN [val EXCEPT !.pc = "iter_errors"]
              ELSE ValidateLeaves(ValidateExcept("SchemaError"))
    /\ UNCHANGED <<hostVars, convVars, auxVars, convert_options, rt, gen, run, fmt>>

\* return [str(e.message) for e in validator.iter_errors(data)]
ValIterErrors ==
    /\ val.pc = "iter_errors"
    /\ val' = IF val.schema_json.kind # "unknown_type"
              THEN ValidateLeaves([kind |-> "return",
                                   errors |-> iter_errors(val.schema_json.schema,
                                                          val.data),
                                   exc |-> ""])
              ELSE ValidateLeaves(ValidateExcept("UnknownType"))
    /\ UNCHANGED <<hostVars, convVars, auxVars, convert_options, rt, gen, run, fmt>>

InitVal ==
    /\ host = "LlmRoundtripEngine"
    /\ module \in {m \in ReferenceModules : m.alloc0 = 1}
    /\ abi_verified = FALSE
    /\ pc = "_validate"
    /\ func_name = ""
    /\ json_args = << >>
    /\ argi = 1
    /\ inst = FreshInstance
    /\ allocs = << >>
    /\ result_ptr = 0
    /\ envelope = NullResult
    /\ outcome = Pending
    /\ log = << >>
    /\ handshakes = 0
    /\ first = NoCall
    /\ root_schema = NoSchema
    /\ walk = << >>
    /\ conv = NoConv
    /\ AuxUnused
    /\ convert_options = Unused
    /\ rt = Unused
    /\ gen = Unused
    /\ \E im \in Imports, st \in SchemaTexts, d \in ValidateData :
          val = [pc |-> "import", imports |-> im, schema_json |-> st, data |-> d,
                 result |-> NoResult]
    /\ run = Unused
    /\ fmt = Unused

NextVal ==
    \/ ValImport
    \/ ValLoads
    \/ ValCheckSchema
    \/ ValIterErrors

SpecVal == InitVal /\ [][NextVal]_vars

\* C15: _validate returns [] only when the data satisfies a valid schema or
\* jsonschema cannot be imported; data that violates the schema gives one
\* message per error, an invalid schema gives a non-empty list and no
\* exception, and schema text that is not JSON raises JSONDecodeError.
C15_ValidateSurfaces ==
    val.pc = "done" =>
        /\ (val.result.kind = "return" /\ val.result.errors = {}) =>
              \/ val.imports # "ok"
              \/ /\ val.schema_json.kind = "valid"
                 /\ Conforms(val.data, val.schema_json.schema)
        /\ (val.imports = "ok" /\ val.schema_json.kind = "valid") =>
              /\ val.result.kind = "return"
              /\ Cardinality(val.result.errors) =
                    Cardinality(val.schema_json.schema.required \ DOMAIN val.data)
                    + Cardinality({k \in DOMAIN val.data :
                                      JsonType(val.data[k]) # PropType[k]})
                    + Cardinality({k \in DOMAIN val.data \cap
                                           val.schema_json.schema.minimum :
                                      val.data[k] = "-1"})
        /\ (val.imports = "ok"
              /\ val.schema_json.kind \in {"invalid_schema", "unknown_type"}) =>
              (val.result.kind = "return" /\ val.result.errors # {})
        /\ (val.imports = "ok" /\ val.schema_json.kind = "not_json") =>
              (val.result.kind = "raise" /\ val.result.exc = "JSONDecodeError")

C15_Witness ==
    /\ val.pc = "done"
    /\ val.imports = "ok"
    /\ val.schema_json.kind = "valid"
    /\ val.schema_json.schema.required = Props
    /\ DOMAIN val.data = {"name"}
    /\ val.result.errors = {<<"age", "required">>}

-----------------------------------------------------------------------------
\* Stress runner: run_single_schema, _run_pipeline_once, classify_result
\* (src/scripts/stress/run_cli_test.py).  The variable run holds one call of
\* run_single_schema followed by the classify_result call main makes on its
\* result.  None is the token "None"; a sleep is counted in quarter seconds
\* so that the jitter factors 0.75 and 1.25 stay integral.

MaxRetries == 2

DefaultRetryDelay == 2

DefaultMaxDelay == 60

SmallMaxDelay == 3

NoSleep == -1

\* run_cli_conversion / run_cli_rehydration: (success, err, is_timeout)
CliResults == {"ok", "failed", "timed_out"}

\* call_openai: content, None, or a string starting with OPENAI_ERROR
OpenAiResults == {"content", "None", "OPENAI_ERROR"}

\* json.load of the files the CLI wrote
LoadResults == {"ok", "JSONDecodeError"}

Failure(stage, reason) == [passed |-> FALSE, stage |-> stage, reason |-> reason]

Passed == [passed |-> TRUE, stage |-> "None", reason |-> "None"]

PipelineRaised == [passed |-> FALSE, stage |-> "raised", reason |-> "raised"]

run_pipeline_once(conv_r, load_r, llm_r, rehy_r, valid) ==
    IF conv_r # "ok"
    THEN Failure("convert",
                 IF conv_r = "timed_out" THEN "timeout" ELSE "conversion_failed")
    ELSE IF load_r # "ok" THEN PipelineRaised
    ELSE IF llm_r = "None" THEN Failure("openai", "null_content")
    ELSE IF llm_r = "OPENAI_ERROR" THEN Failure("openai", "api_error")
    ELSE IF rehy_r # "ok"
    THEN Failure("rehydrate",
                 IF rehy_r = "timed_out" THEN "timeout" ELSE "rehydration_failed")
    ELSE IF ~valid THEN Failure("validation", "schema_mismatch")
    ELSE Passed

is_transient_failure_any(attempt) ==
    attempt.reason # "None"

is_transient_failure(attempt) ==
    attempt.reason \in {"api_error", "null_content", "timeout"}

max_attempts_extra(retries) == 2 + retries

max_attempts(retries) == 1 + retries

RECURSIVE Pow2(_)
Pow2(n) == IF n = 0 THEN 1 ELSE 2 * Pow2(n - 1)

min2(a, b) == IF a < b THEN a ELSE b

\* capped = min(max_delay, retry_delay * 2 ** (attempt_num - 1))
capped_delay(retry_delay, max_delay, attempt_num) ==
    min2(max_delay, retry_delay * Pow2(attempt_num - 1))

sleep_delay_uncapped(retry_delay, max_delay, attempt_num, j) ==
    j * capped_delay(retry_delay, max_delay, attempt_num)

\* the argument of time.sleep, in quarter seconds; j quarters of capped is
\* the value random.uniform(capped * 0.75, capped * 1.25) drew
sleep_delay(retry_delay, max_delay, attempt_num, j) ==
    min2(j * capped_delay(retry_delay, max_delay, attempt_num), 4 * max_delay)

AnyPassed(attempts) == \E i \in 1..Len(attempts) : attempts[i].passed

verdict_of_last(attempts) ==
    IF AnyPassed(attempts)
    THEN IF attempts[Len(attempts)].passed THEN "solid_pass" ELSE "flaky_pass"
    ELSE "solid_fail"

verdict_of(attempts) ==
    IF AnyPassed(attempts)
    THEN IF attempts[1].passed THEN "solid_pass" ELSE "flaky_pass"
    ELSE "solid_fail"

\* File names are token sequences: the stem, then each dot-suffix.
\* os.path.splitext(name)[0]: the name without its last dot-suffix
splitext0(name) ==
    IF Len(name) > 1 THEN SubSeq(name, 1, Len(name) - 1) ELSE name

\* expected-failures configs: base name -> entry with reason, optional stage
ExpectedFailures ==
    LET entries == { [reason |-> "known"],
                     [reason |-> "known", stage |-> "None"],
                     [reason |-> "known", stage |-> "convert"],
                     [reason |-> "known", stage |-> "openai"] }
    IN  UNION { [ns -> entries] : ns \in {{}, {<<"s1">>}, {<<"s1", ".json">>},
                                          {<<"s1">>, <<"s2", ".v1">>}} }

EntryStage(config) == IF "stage" \in DOMAIN config THEN config.stage ELSE "None"

classify_result_any_stage(result, expected_failures) ==
    LET base_name == splitext0(result.file)
    IN  IF base_name \notin DOMAIN expected_failures THEN result.verdict
        ELSE IF result.verdict \in {"solid_pass", "flaky_pass"}
        THEN "unexpected_pass"
        ELSE "expected_fail"

classify_result(result, expected_failures) ==
    LET base_name == splitext0(result.file)
    IN  IF base_name \notin DOMAIN expected_failures THEN result.verdict
        ELSE IF result.verdict \in {"solid_pass", "flaky_pass"}
        THEN "unexpected_pass"
        ELSE IF /\ EntryStage(expected_failures[base_name]) # "None"
                /\ result.attempts[Len(result.attempts)].stage
                      # EntryStage(expected_failures[base_name])
        THEN "solid_fail"
        ELSE "expected_fail"

\* top of the for loop, retry iterations: back off, then attempt
RunSleep ==
    /\ run.pc = "loop"
    /\ run.attempt_num > 0
    /\ \E j \in {3, 4, 5} :    \* both ends and the middle of the jitter range
          run' = [run EXCEPT
                    !.pc = "attempt",
                    !.slept = sleep_delay(run.retry_delay, run.max_delay,
                                          run.attempt_num, j),
                    !.sleeps = @ + 1]
    /\ UNCHANGED <<hostVars, convVars, auxVars, convert_options, rt, gen, val, fmt>>

\* _run_pipeline_once, attempts.append, and the two break tests
RunAttempt ==
    /\ \/ run.pc = "attempt"
       \/ run.pc = "loop" /\ run.attempt_num = 0
    /\ \E conv_r \in CliResults, load_r \in LoadResults, llm_r \in OpenAiResults,
          rehy_r \in CliResults, valid \in BOOLEAN :
          \E attempt \in {run_pipeline_once(conv_r, load_r, llm_r, rehy_r, valid)} :
             IF attempt = PipelineRaised
             THEN run' = [run EXCEPT !.pc = "raised"]
             ELSE run' = [run EXCEPT
                            !.attempts = Append(@, attempt),
                            !.attempt_num = @ + 1,
                            !.pc = IF \/ attempt.passed
                                      \/ ~is_transient_failure(attempt)
                                      \/ run.attempt_num + 1
                                            >= max_attempts(run.retries)
                                   THEN "verdict" ELSE "loop"]
    /\ UNCHANGED <<hostVars, convVars, auxVars, convert_options, rt, gen, val, fmt>>

RunReturn ==
    /\ run.pc = "verdict"
    /\ run' = [run EXCEPT !.pc = "returned",
                          !.verdict = verdict_of(run.attempts)]
    /\ UNCHANGED <<hostVars, convVars, auxVars, convert_options, rt, gen, val, fmt>>

RunClassify ==
    /\ run.pc = "returned"
    /\ \E ef \in ExpectedFailures :
          run' = [run EXCEPT !.pc = "classified",
                             !.expected_failures = ef,
                             !.classification =
                                classify_result([file |-> run.file,
                                                 verdict |-> run.verdict,
                                                 attempts |-> run.attempts], ef)]
    /\ UNCHANGED <<hostVars, convVars, auxVars, convert_options, rt, gen, val, fmt>>

InitRun ==
    /\ host = "stress"
    /\ module \in {m \in ReferenceModules : m.alloc0 = 1}
    /\ abi_verified = FALSE
    /\ pc = "run"
    /\ func_name = ""
    /\ json_args = << >>
    /\ argi = 1
    /\ inst = FreshInstance
    /\ allocs = << >>
    /\ result_ptr = 0
    /\ envelope = NullResult
    /\ outcome = Pending
    /\ log = << >>
    /\ handshakes = 0
    /\ first = NoCall
    /\ root_schema = NoSchema
    /\ walk = << >>
    /\ conv = NoConv
    /\ AuxUnused
    /\ convert_options = Unused
    /\ rt = Unused
    /\ gen = Unused
    /\ val = Unused
    /\ fmt = Unused
    /\ \E f \in {<<"s1", ".json">>, <<"s2", ".v1", ".json">>}, r \in 0..MaxRetries, rd \in {0, DefaultRetryDelay},
          md \in {0, SmallMaxDelay, DefaultMaxDelay} :
          run = [pc |-> "loop", file |-> f, retries |-> r, retry_delay |-> rd,
                 max_delay |-> md, attempt_num |-> 0, attempts |-> << >>,
                 slept |-> NoSleep, sleeps |-> 0, verdict |-> "None",
                 expected_failures |-> [ns \in {} |-> [reason |-> "known"]], classification |-> "None"]

NextRun == RunSleep \/ RunAttempt \/ RunReturn \/ RunClassify

\* the loop is sequential code: time.sleep returns and every stage has a timeout
SpecRun ==
    InitRun /\ [][NextRun]_vars /\ WF_vars(RunSleep \/ RunAttempt \/ RunReturn)

Transient == {"api_error", "null_content", "timeout"}

Permanent == {"conversion_failed", "rehydration_failed", "schema_mismatch"}

RunEnded == run.pc \in {"verdict", "returned", "classified"}

\* C16: run_single_schema with retries >= 0 makes at least 1 and at most
\* 1 + retries attempts and stops at the first passing attempt: only the last
\* entry of attempts can have passed = True, and no attempt is appended after a
\* passing one.
C16_AttemptCount ==
    /\ Len(run.attempts) <= 1 + run.retries
    /\ \A i \in 1..(Len(run.attempts) - 1) : ~run.attempts[i].passed
    /\ RunEnded => Len(run.attempts) >= 1
    /\ AnyPassed(run.attempts) => RunEnded

C16_Witness ==
    /\ run.pc = "returned"
    /\ run.retries = 2
    /\ Len(run.attempts) = 2
    /\ run.attempts[2].passed

\* C17: only transient failures are retried: an attempt is followed by another
\* only if it failed with reason api_error, null_content or timeout and fewer
\* than 1 + retries attempts have been made; a permanent failure ends the run
\* at once; and an attempt that fails transiently while attempts remain is
\* followed by another attempt.
C17_RetryOnlyTransient ==
    /\ [](/\ \A i \in 1..(Len(run.attempts) - 1) :
                /\ ~run.attempts[i].passed
                /\ run.attempts[i].reason \in Transient
                /\ i < 1 + run.retries
          /\ (Len(run.attempts) >= 1
                /\ run.attempts[Len(run.attempts)].reason \in Permanent)
                => RunEnded
          /\ (RunEnded /\ run.attempts[Len(run.attempts)].reason \in Transient)
                => Len(run.attempts) = 1 + run.retries)
    /\ \A k \in 1..MaxRetries :
          (/\ Len(run.attempts) = k
           /\ run.attempts[k].reason \in Transient
           /\ k < 1 + run.retries)
             ~> (Len(run.attempts) = k + 1 \/ run.pc = "raised")

C17_Witness ==
    /\ run.pc = "returned"
    /\ run.retries = 2
    /\ Len(run.attempts) = 2
    /\ run.attempts[1].reason = "timeout"
    /\ run.attempts[2].reason = "schema_mismatch"

\* C18: the verdict run_single_schema returns is solid_pass exactly when the
\* first attempt passed, flaky_pass exactly when the first attempt failed and
\* a later one passed, solid_fail exactly when no attempt passed.
C18_Verdict ==
    run.pc \in {"returned", "classified"} =>
        /\ run.verdict \in {"solid_pass", "flaky_pass", "solid_fail"}
        /\ run.verdict = "solid_pass" <=> run.attempts[1].passed
        /\ run.verdict = "flaky_pass" <=>
              /\ ~run.attempts[1].passed
              /\ \E i \in 2..Len(run.attempts) : run.attempts[i].passed
        /\ run.verdict = "solid_fail" <=>
              \A i \in 1..Len(run.attempts) : ~run.attempts[i].passed

C18_Witness ==
    /\ run.pc = "returned"
    /\ run.verdict = "flaky_pass"
    /\ Len(run.attempts) = 3
    /\ run.attempts[3].passed

LastStage == run.attempts[Len(run.attempts)].stage

Configured == splitext0(run.file) \in DOMAIN run.expected_failures

ConfiguredStage == EntryStage(run.expected_failures[splitext0(run.file)])

\* C19: classify_result leaves the verdict of a schema absent from the config
\* unchanged; a configured schema that passed is unexpected_pass; a configured
\* schema that failed is expected_fail when the config gives no stage or its
\* stage equals the last attempt's stage, and solid_fail when they differ.
C19_Classify ==
    run.pc = "classified" =>
        /\ ~Configured => run.classification = run.verdict
        /\ (Configured /\ run.verdict \in {"solid_pass", "flaky_pass"})
              => run.classification = "unexpected_pass"
        /\ (Configured /\ run.verdict = "solid_fail") =>
              /\ (ConfiguredStage = "None" \/ ConfiguredStage = LastStage)
                    => run.classification = "expected_fail"
              /\ (ConfiguredStage # "None" /\ ConfiguredStage # LastStage)
                    => run.classification = "solid_fail"

C19_Witness ==
    /\ run.pc = "classified"
    /\ run.file = <<"s2", ".v1", ".json">>
    /\ Configured
    /\ ConfiguredStage = "convert"
    /\ LastStage = "rehydrate"
    /\ run.classification = "solid_fail"

-----------------------------------------------------------------------------
\* ProviderFormatter.extract_content of the four formatters
\* (src/engine/python/jsonschema_llm_engine/formatters/).  A JSON value is a
\* record: t its Python type after json.loads, s the literal of a scalar,
\* items the elements of a list, fields the members of a dict.

NoFields == [k \in {} |-> k]

JNull == [t |-> "null", s |-> "null", items |-> << >>, fields |-> NoFields]

JStr(s) == [t |-> "str", s |-> s, items |-> << >>, fields |-> NoFields]

JInt(s) == [t |-> "int", s |-> s, items |-> << >>, fields |-> NoFields]

JBool(s) == [t |-> "bool", s |-> s, items |-> << >>, fields |-> NoFields]

JList(items) == [t |-> "list", s |-> "", items |-> items, fields |-> NoFields]

JDict(fields) == [t |-> "dict", s |-> "", items |-> << >>, fields |-> fields]

\* Python truth value of a JSON value
Truthy(v) ==
    CASE v.t = "null" -> FALSE
      [] v.t = "bool" -> v.s = "true"
      [] v.t = "int"  -> v.s # "0"
      [] v.t = "str"  -> v.s # ""
      [] v.t = "list" -> v.items # << >>
      [] v.t = "dict" -> DOMAIN v.fields # {}

\* dict.get(key): the member, or None
dict_get(d, key) == IF key \in DOMAIN d.fields THEN d.fields[key] ELSE JNull

IsStr(v, s) == v.t = "str" /\ v.s = s

FmtRaise(exc) == [kind |-> "raise", exc |-> exc, value |-> JNull]

FmtReturn(v) == [kind |-> "return", exc |-> "None", value |-> v]

FmtNone == [kind |-> "none", exc |-> "None", value |-> JNull]

\* json.dumps(input_data) of the Claude formatter: always a str
json_dumps(v) == JStr("dumps")

\* values of the wrong shape for any position of a response
Wrong ==
    { JNull, JInt("0"), JInt("7"), JBool("true"), JStr(""), JStr("x"),
      JList(<< >>), JDict(NoFields) }

Field(k, v) == JDict([f \in {k} |-> v])

\* --- Chat Completions: choices[0].message.content
ChatRoots ==
    LET contents == Wrong \cup {JStr("{\"name\": \"Ada\"}")}
        messages == Wrong \cup {Field("content", c) : c \in contents}
        choice   == Wrong \cup {Field("message", m) : m \in messages}
        choices  == Wrong \cup {JList(<<c>>) : c \in choice}
                          \cup {JList(<<c, JInt("7")>>) : c \in choice}
    IN  Wrong \cup {Field("choices", cs) : cs \in choices}

ChatBody(root) ==
    IF root.t # "dict" THEN FmtRaise("AttributeError")
    ELSE LET choices == dict_get(root, "choices")
    IN  IF ~Truthy(choices) \/ choices.t # "list"
        THEN FmtRaise("ResponseParsingError")
        ELSE IF choices.items[1].t # "dict" THEN FmtRaise("AttributeError")
        ELSE LET message == dict_get(choices.items[1], "message")
        IN  IF message.t = "null" THEN FmtRaise("ResponseParsingError")
            ELSE IF message.t # "dict" THEN FmtRaise("AttributeError")
            ELSE LET content == dict_get(message, "content")
            IN  IF content.t = "null" THEN FmtRaise("ResponseParsingError")
                ELSE IF content.t # "str" THEN FmtRaise("ResponseParsingError")
                ELSE FmtReturn(content)

Fields2(k1, v1, k2, v2) == JDict([f \in {k1, k2} |-> IF f = k1 THEN v1 ELSE v2])

\* --- Claude: the first content block of type tool_use with an input
ClaudeRoots ==
    LET inputs   == {JNull, JStr("x"), Field("name", JStr("Ada"))}
        types    == {JStr("tool_use"), JStr("text"), JInt("7")}
        blocks   == Wrong \cup {Field("type", ty) : ty \in types}
                          \cup {Field("input", inp) : inp \in inputs}
                          \cup {Fields2("type", ty, "input", inp) :
                                   ty \in types, inp \in inputs}
        contents == Wrong \cup {JList(<<b>>) : b \in blocks}
                          \cup {JList(<<b1, b2>>) :
                                   b1 \in {Field("type", JStr("text")), JInt("7")},
                                   b2 \in blocks}
    IN  Wrong \cup {Field("content", c) : c \in contents}

RECURSIVE ClaudeBlocksLoop(_, _)
ClaudeBlocksLoop(content, i) ==
    IF i > Len(content) THEN FmtRaise("ResponseParsingError")
    ELSE IF content[i].t # "dict" THEN FmtRaise("AttributeError")
    ELSE IF /\ IsStr(dict_get(content[i], "type"), "tool_use")
            /\ dict_get(content[i], "input").t # "null"
    THEN FmtReturn(json_dumps(dict_get(content[i], "input")))
    ELSE ClaudeBlocksLoop(content, i + 1)

ClaudeBody(root) ==
    IF root.t # "dict" THEN FmtRaise("AttributeError")
    ELSE LET content == dict_get(root, "content")
    IN  IF ~Truthy(content) \/ content.t # "list"
        THEN FmtRaise("ResponseParsingError")
        ELSE ClaudeBlocksLoop(content.items, 1)

\* --- Gemini: candidates[0].content.parts[0].text, unless finishReason SAFETY
GeminiRoots ==
    LET texts      == Wrong \cup {JStr("{\"name\": \"Ada\"}")}
        part       == Wrong \cup {Field("text", t) : t \in texts}
        parts      == Wrong \cup {JList(<<pt>>) : pt \in part}
                            \cup {JList(<<pt, JInt("7")>>) : pt \in part}
        contents   == Wrong \cup {Field("parts", ps) : ps \in parts}
        candidate  ==
            Wrong \cup {Field("content", c) : c \in contents}
                  \cup {Field("finishReason", JStr("SAFETY"))}
                  \cup {Fields2("finishReason", fr, "content", c) :
                           fr \in {JStr("SAFETY"), JStr("STOP"), JInt("7")},
                           c \in {JNull, JInt("7"),
                                  Field("parts",
                                        JList(<<Field("text", JStr("x"))>>))}}
        candidates == Wrong \cup {JList(<<c>>) : c \in candidate}
    IN  Wrong \cup {Field("candidates", cs) : cs \in candidates}

GeminiBody(root) ==
    IF root.t # "dict" THEN FmtRaise("AttributeError")
    ELSE LET candidates == dict_get(root, "candidates")
    IN  IF ~Truthy(candidates) \/ candidates.t # "list"
        THEN FmtRaise("ResponseParsingError")
        ELSE IF candidates.items[1].t # "dict" THEN FmtRaise("AttributeError")
        ELSE IF IsStr(dict_get(candidates.items[1], "finishReason"), "SAFETY")
        THEN FmtRaise("ResponseParsingError")
        ELSE LET content == dict_get(candidates.items[1], "content")
        IN  IF content.t = "null" THEN FmtRaise("ResponseParsingError")
            ELSE IF content.t # "dict" THEN FmtRaise("AttributeError")
            ELSE LET parts == dict_get(content, "parts")
            IN  IF ~Truthy(parts) \/ parts.t # "list"
                THEN FmtRaise("ResponseParsingError")
                ELSE IF parts.items[1].t # "dict" THEN FmtRaise("AttributeError")
                ELSE LET text == dict_get(parts.items[1], "text")
                IN  IF text.t = "null" \/ text.t # "str"
                    THEN FmtRaise("ResponseParsingError")
                    ELSE FmtReturn(text)

\* --- OpenResponses: the first non-empty output_text part of a message item
OrRoots ==
    LET texts    == {JNull, JInt("7"), JStr(""), JStr("{\"name\": \"Ada\"}")}
        types    == {JStr("output_text"), JStr("refusal"), JInt("7")}
        part     == Wrong \cup {Field("text", t) : t \in texts}
                          \cup {Fields2("type", ty, "text", t) :
                                   ty \in types, t \in texts}
        contents ==
            Wrong \cup {JList(<<pt>>) : pt \in part}
                  \cup {JList(<<pt1, pt2>>) :
                           pt1 \in {Field("type", JStr("refusal")),
                                    Fields2("type", JStr("output_text"),
                                            "text", JStr(""))},
                           pt2 \in part}
        item     ==
            Wrong \cup {Field("content", c) : c \in {JList(<<JInt("7")>>)}}
                  \cup {Fields2("type", ty, "content", c) :
                           ty \in {JStr("message"), JStr("reasoning")},
                           c \in contents}
        outputs  ==
            Wrong \cup {JList(<<it>>) : it \in item}
                  \cup {JList(<<it1, it2>>) :
                           it1 \in {Field("type", JStr("reasoning")),
                                    Fields2("type", JStr("message"),
                                            "content", JNull),
                                    Fields2("type", JStr("message"), "content",
                                            JList(<<Field("type",
                                                          JStr("refusal"))>>))},
                           it2 \in {JInt("7"), JDict(NoFields),
                                    Fields2("type", JStr("message"), "content",
                                            JList(<<Fields2("type",
                                                            JStr("output_text"),
                                                            "text",
                                                            JStr("x"))>>))}}
    IN  Wrong \cup {Field("output", o) : o \in outputs}

RECURSIVE OrPartsLoop(_, _)
OrPartsLoop(content, j) ==
    IF j > Len(content) THEN FmtNone
    ELSE IF content[j].t # "dict" THEN FmtRaise("AttributeError")
    ELSE IF /\ IsStr(dict_get(content[j], "type"), "output_text")
            /\ Truthy(dict_get(content[j], "text"))
            /\ dict_get(content[j], "text").t = "str"
    THEN FmtReturn(dict_get(content[j], "text"))
    ELSE OrPartsLoop(content, j + 1)

RECURSIVE OrItemsLoop(_, _)
OrItemsLoop(output, i) ==
    IF i > Len(output) THEN FmtRaise("ResponseParsingError")
    ELSE IF output[i].t # "dict" THEN FmtRaise("AttributeError")
    ELSE IF /\ IsStr(dict_get(output[i], "type"), "message")
            /\ Truthy(dict_get(output[i], "content"))
            /\ dict_get(output[i], "content").t = "list"
            /\ OrPartsLoop(dict_get(output[i], "content").items, 1) # FmtNone
    THEN OrPartsLoop(dict_get(output[i], "content").items, 1)
    ELSE OrItemsLoop(output, i + 1)

OpenResponsesBody(root) ==
    IF root.t # "dict" THEN FmtRaise("AttributeError")
    ELSE LET output == dict_get(root, "output")
    IN  IF ~Truthy(output) \/ output.t # "list"
        THEN FmtRaise("ResponseParsingError")
        ELSE OrItemsLoop(output.items, 1)

Formatters == {"ChatCompletionsFormatter", "OpenResponsesFormatter",
               "ClaudeFormatter", "GeminiFormatter"}

Body(formatter, root) ==
    CASE formatter = "ChatCompletionsFormatter" -> ChatBody(root)
      [] formatter = "OpenResponsesFormatter" -> OpenResponsesBody(root)
      [] formatter = "ClaudeFormatter" -> ClaudeBody(root)
      [] formatter = "GeminiFormatter" -> GeminiBody(root)

\* a raw response string: text that is not JSON, or the text of a JSON value
RawResponses(formatter) ==
    {[json |-> FALSE, text |-> JNull]}
        \cup {[json |-> TRUE, text |-> v] :
                 v \in CASE formatter = "ChatCompletionsFormatter" -> ChatRoots
                         [] formatter = "OpenResponsesFormatter" -> OrRoots
                         [] formatter = "ClaudeFormatter" -> ClaudeRoots
                         [] formatter = "GeminiFormatter" -> GeminiRoots}

\* the except clauses: ResponseParsingError is re-raised, any other
\* Exception is replaced by ResponseParsingError
ExceptClauses_reraise(raised) == raised

ExceptClauses(raised) ==
    IF raised.exc = "ResponseParsingError" THEN raised
    ELSE FmtRaise("ResponseParsingError")

\* root = json.loads(raw_response)
FmtLoads ==
    /\ fmt.pc = "try"
    /\ IF fmt.raw_response.json
       THEN fmt' = [fmt EXCEPT !.pc = "loaded", !.root = fmt.raw_response.text]
       ELSE fmt' = [fmt EXCEPT !.pc = "except",
                               !.raised = FmtRaise("JSONDecodeError")]
    /\ UNCHANGED <<hostVars, convVars, auxVars, convert_options, rt, gen, val, run>>

\* the rest of the try block
FmtExtract ==
    /\ fmt.pc = "loaded"
    /\ \E r \in {Body(fmt.formatter, fmt.root)} :
          IF r.kind = "raise"
          THEN fmt' = [fmt EXCEPT !.pc = "except", !.raised = r]
          ELSE fmt' = [fmt EXCEPT !.pc = "done", !.result = r]
    /\ UNCHANGED <<hostVars, convVars, auxVars, convert_options, rt, gen, val, run>>

FmtExcept ==
    /\ fmt.pc = "except"
    /\ fmt' = [fmt EXCEPT !.pc = "done", !.result = ExceptClauses(fmt.raised)]
    /\ UNCHANGED <<hostVars, convVars, auxVars, convert_options, rt, gen, val, run>>

InitFmt ==
    /\ host = "formatter"
    /\ module \in {m \in ReferenceModules : m.alloc0 = 1}
    /\ abi_verified = FALSE
    /\ pc = "extract_content"
    /\ func_name = ""
    /\ json_args = << >>
    /\ argi = 1
    /\ inst = FreshInstance
    /\ allocs = << >>
    /\ result_ptr = 0
    /\ envelope = NullResult
    /\ outcome = Pending
    /\ log = << >>
    /\ handshakes = 0
    /\ first = NoCall
    /\ root_schema = NoSchema
    /\ walk = << >>
    /\ conv = NoConv
    /\ AuxUnused
    /\ convert_options = Unused
    /\ rt = Unused
    /\ gen = Unused
    /\ val = Unused
    /\ run = Unused
    /\ \E f \in Formatters :
          \E raw \in RawResponses(f) :
             fmt = [pc |-> "try", formatter |-> f, raw_response |-> raw,
                    root |-> JNull, raised |-> FmtNone, result |-> FmtNone]

NextFmt == FmtLoads \/ FmtExtract \/ FmtExcept

SpecFmt == InitFmt /\ [][NextFmt]_vars

\* C20: for every raw response string - not JSON, JSON that is not an object,
\* JSON with missing or wrongly typed fields at any level - extract_content of
\* the four formatters returns a str or raises ResponseParsingError; no other
\* exception escapes.
C20_ExtractContentTotal ==
    fmt.pc = "done" =>
        \/ fmt.result.kind = "return" /\ fmt.result.value.t = "str"
        \/ fmt.result.kind = "raise" /\ fmt.result.exc = "ResponseParsingError"

C20_Witness ==
    /\ fmt.pc = "done"
    /\ fmt.formatter = "GeminiFormatter"
    /\ fmt.raised.exc = "AttributeError"
    /\ fmt.root.t = "dict"
    /\ fmt.result.exc = "ResponseParsingError"

-----------------------------------------------------------------------------
\* The procedures below run outside the engine: the engine, the converter and
\* the earlier procedures stay idle.
IdleEngine(h, label) ==
    /\ host = h
    /\ module \in {m \in ReferenceModules : m.alloc0 = 1}
    /\ abi_verified = FALSE
    /\ pc = label
    /\ func_name = ""
    /\ json_args = << >>
    /\ argi = 1
    /\ inst = FreshInstance
    /\ allocs = << >>
    /\ result_ptr = 0
    /\ envelope = NullResult
    /\ outcome = Pending
    /\ log = << >>
    /\ handshakes = 0
    /\ first = NoCall
    /\ root_schema = NoSchema
    /\ walk = << >>
    /\ conv = NoConv
    /\ convert_options = Unused
    /\ rt = Unused
    /\ gen = Unused
    /\ val = Unused
    /\ run = Unused
    /\ fmt = Unused

-----------------------------------------------------------------------------
\* ConvertAllComponentsResult.from_dict
\* (src/bindings/python/json_schema_llm_wasi/types.py).  An entry of the raw
\* components array is a record: kind its JSON shape, pointer the first
\* element of a list entry, data the shape of the second.

MaxComponents == 3

Pointers == {"#/$defs/Pet", "#/$defs/Tag"}

\* [pointer, {name?, schema, codec}] as the guest emits it; the object entry
\* of test_from_dict_happy_path; lists of another length; a scalar
ComponentItems ==
    [kind : {"pair"}, pointer : Pointers, data : {"dict", "null"}]
        \cup [kind : {"object", "list1", "list3", "string"},
              pointer : {"#/$defs/Pet"}, data : {"dict"}]

RawComponents ==
    UNION {[1..n -> ComponentItems] : n \in 0..MaxComponents}

NoComps == [p \in {} |-> "dict"]

\* isinstance(item, list) and len(item) == 2
IsPair(item) == item.kind = "pair"

\* one iteration of `for item in raw.get("components", [])`
CarIterate ==
    /\ car.pc = "loop"
    /\ car.i <= Len(car.components)
    /\ \E item \in {car.components[car.i]} :
          IF ~IsPair(item)
          THEN car' = [car EXCEPT !.i = @ + 1]
          ELSE IF item.data # "dict"
          THEN car' = [car EXCEPT !.pc = "raised", !.exc = "AttributeError"]
          ELSE car' = [car EXCEPT
                         !.i = @ + 1,
                         !.comps = [p \in DOMAIN car.comps \cup {item.pointer} |->
                                       IF p = item.pointer THEN item.data
                                       ELSE car.comps[p]]]
    /\ UNCHANGED <<hostVars, convVars, convert_options, rt, gen, val, run, fmt,
                   pipe, smain, cmp, strip, san, prng, shuf>>

\* return cls(api_version=raw["apiVersion"], ..., components=comps, ...)
CarReturn ==
    /\ car.pc = "loop"
    /\ car.i > Len(car.components)
    /\ IF car.has_api_version
       THEN car' = [car EXCEPT !.pc = "returned"]
       ELSE car' = [car EXCEPT !.pc = "raised", !.exc = "KeyError"]
    /\ UNCHANGED <<hostVars, convVars, convert_options, rt, gen, val, run, fmt,
                   pipe, smain, cmp, strip, san, prng, shuf>>

InitCar ==
    /\ IdleEngine("types", "from_dict")
    /\ \E cs \in RawComponents, api \in BOOLEAN :
          car = [pc |-> "loop", components |-> cs, has_api_version |-> api,
                 i |-> 1, comps |-> NoComps, exc |-> "None"]
    /\ pipe = Unused
    /\ smain = Unused
    /\ cmp = Unused
    /\ strip = Unused
    /\ san = Unused
    /\ prng = Unused
    /\ shuf = Unused

NextCar == CarIterate \/ CarReturn

SpecCar == InitCar /\ [][NextCar]_vars

\* C21: ConvertAllComponentsResult.from_dict keeps every entry of the raw
\* components array: a raw array with n entries gives a components collection
\* with n entries.
C21_KeepsEveryEntry ==
    car.pc = "returned" =>
        Cardinality(DOMAIN car.comps) = Len(car.components)

-----------------------------------------------------------------------------
\* _run_pipeline_once stage by stage (src/scripts/stress/run_cli_test.py).
\* pipe.env is what each collaborator would answer if it were called; the
\* actions consult only the answer of the stage they run.

Stages == <<"convert", "openai", "rehydrate", "validation">>

\* validate_original: (True, ""), (False, str(e)), or SchemaError raised
ValidateResults == {"valid", "invalid", "SchemaError"}

PipeEnvs ==
    [conv : CliResults, load_converted : LoadResults, llm : OpenAiResults,
     rehy : CliResults, load_rehydrated : LoadResults, valid : ValidateResults]

\* `if not success` after run_cli_conversion / run_cli_rehydration
StageFailed_nonzero_only(r) == r = "failed"

StageFailed(r) == r # "ok"

CliReason(r, failed) == IF r = "timed_out" THEN "timeout" ELSE failed

PipeReturn(attempt, stage) ==
    [pipe EXCEPT !.pc = "returned", !.result = attempt,
                 !.executed = Append(@, stage)]

PipeConvert ==
    /\ pipe.pc = "convert"
    /\ IF StageFailed(pipe.env.conv)
       THEN pipe' = PipeReturn(Failure("convert",
                                       CliReason(pipe.env.conv,
                                                 "conversion_failed")),
                               "convert")
       ELSE pipe' = [pipe EXCEPT !.pc = "openai",
                                 !.executed = Append(@, "convert")]
    /\ UNCHANGED <<hostVars, convVars, convert_options, rt, gen, val, run, fmt,
                   car, smain, cmp, strip, san, prng, shuf>>

\* json.load(converted_path), call_openai, and the write of its answer
PipeOpenAi ==
    /\ pipe.pc = "openai"
    /\ IF pipe.env.load_converted # "ok"
       THEN pipe' = [pipe EXCEPT !.pc = "raised"]
       ELSE IF pipe.env.llm = "None"
       THEN pipe' = PipeReturn(Failure("openai", "null_content"), "openai")
       ELSE IF pipe.env.llm = "OPENAI_ERROR"
       THEN pipe' = PipeReturn(Failure("openai", "api_error"), "openai")
       ELSE pipe' = [pipe EXCEPT !.pc = "rehydrate",
                                 !.executed = Append(@, "openai")]
    /\ UNCHANGED <<hostVars, convVars, convert_options, rt, gen, val, run, fmt,
                   car, smain, cmp, strip, san, prng, shuf>>

PipeRehydrate ==
    /\ pipe.pc = "rehydrate"
    /\ IF StageFailed(pipe.env.rehy)
       THEN pipe' = PipeReturn(Failure("rehydrate",
                                       CliReason(pipe.env.rehy,
                                                 "rehydration_failed")),
                               "rehydrate")
       ELSE pipe' = [pipe EXCEPT !.pc = "validation",
                                 !.executed = Append(@, "rehydrate")]
    /\ UNCHANGED <<hostVars, convVars, convert_options, rt, gen, val, run, fmt,
                   car, smain, cmp, strip, san, prng, shuf>>

\* json.load of the rehydrated data and the schema, validate_original
PipeValidate ==
    /\ pipe.pc = "validation"
    /\ IF pipe.env.load_rehydrated # "ok" \/ pipe.env.valid = "SchemaError"
       THEN pipe' = [pipe EXCEPT !.pc = "raised"]
       ELSE IF pipe.env.valid = "invalid"
       THEN pipe' = PipeReturn(Failure("validation", "schema_mismatch"),
                               "validation")
       ELSE pipe' = PipeReturn(Passed, "validation")
    /\ UNCHANGED <<hostVars, convVars, convert_options, rt, gen, val, run, fmt,
                   car, smain, cmp, strip, san, prng, shuf>>

InitPipe ==
    /\ IdleEngine("stress", "_run_pipeline_once")
    /\ \E e \in PipeEnvs :
          pipe = [pc |-> "convert", env |-> e, executed |-> << >>,
                  result |-> PipelineRaised]
    /\ car = Unused
    /\ smain = Unused
    /\ cmp = Unused
    /\ strip = Unused
    /\ san = Unused
    /\ prng = Unused
    /\ shuf = Unused

NextPipe == PipeConvert \/ PipeOpenAi \/ PipeRehydrate \/ PipeValidate

SpecPipe == InitPipe /\ [][NextPipe]_vars

\* whether the collaborators of a stage answer with success
StageSucceeds(e, stage) ==
    CASE stage = "convert" -> e.conv = "ok"
      [] stage = "openai" -> e.llm = "content"
      [] stage = "rehydrate" -> e.rehy = "ok"
      [] stage = "validation" -> e.valid = "valid"

ReasonsOf(e, stage) ==
    CASE stage = "convert" ->
            IF e.conv = "timed_out" THEN "timeout" ELSE "conversion_failed"
      [] stage = "openai" ->
            IF e.llm = "None" THEN "null_content" ELSE "api_error"
      [] stage = "rehydrate" ->
            IF e.rehy = "timed_out" THEN "timeout" ELSE "rehydration_failed"
      [] stage = "validation" -> "schema_mismatch"

\* C22: _run_pipeline_once runs convert, openai, rehydrate, validation in that
\* order and stops at the first failing stage: the returned stage names it, the
\* reason is the one of that failure, no later stage runs, and passed is True
\* only when all four stages succeeded.
C22_StagesInOrder ==
    /\ pipe.executed = SubSeq(Stages, 1, Len(pipe.executed))
    /\ pipe.pc = "returned" =>
          /\ Len(pipe.executed) >= 1
          /\ \A i \in 1..(Len(pipe.executed) - 1) :
                StageSucceeds(pipe.env, Stages[i])
          /\ pipe.result.passed <=>
                \A i \in 1..Len(Stages) : StageSucceeds(pipe.env, Stages[i])
          /\ pipe.result.passed =>
                /\ pipe.executed = Stages
                /\ pipe.result.stage = "None"
          /\ ~pipe.result.passed =>
                /\ pipe.result.stage = pipe.executed[Len(pipe.executed)]
                /\ ~StageSucceeds(pipe.env, pipe.result.stage)
                /\ pipe.result.reason = ReasonsOf(pipe.env, pipe.result.stage)
          /\ pipe.result =
                run_pipeline_once(pipe.env.conv, pipe.env.load_converted,
                                  pipe.env.llm, pipe.env.rehy,
                                  pipe.env.valid = "valid")

C22_Witness ==
    /\ pipe.pc = "returned"
    /\ pipe.executed = <<"convert", "openai", "rehydrate">>
    /\ pipe.result.reason = "timeout"
    /\ pipe.env.valid = "valid"

\* C23: backoff of run_single_schema: no sleep precedes the first attempt; the
\* sleep before the k-th retry is at least 0.75 * min(max_delay,
\* retry_delay * 2^(k-1)) and never more than max_delay (quarter seconds here).
C23_Backoff ==
    /\ Len(run.attempts) = 0 => (run.sleeps = 0 /\ run.slept = NoSleep)
    /\ run.sleeps <= Len(run.attempts)
    /\ run.sleeps > 0 =>
          /\ run.slept <= 4 * run.max_delay
          /\ run.slept >= 0
    /\ run.pc = "attempt" =>
          /\ run.sleeps = Len(run.attempts)
          /\ run.attempt_num >= 1
          /\ run.slept >=
                3 * (IF run.max_delay < run.retry_delay * Pow2(run.attempt_num - 1)
                     THEN run.max_delay
                     ELSE run.retry_delay * Pow2(run.attempt_num - 1))

C23_Witness ==
    /\ run.pc = "attempt"
    /\ run.attempt_num = 2
    /\ run.max_delay = SmallMaxDelay
    /\ run.retry_delay = DefaultRetryDelay
    /\ run.slept = 4 * run.max_delay

-----------------------------------------------------------------------------
\* main of the stress runner: the loop over the schemas and the exit status
\* (src/scripts/stress/run_cli_test.py).

\* schemas after os.listdir, sort and the optional seeded shuffle
SchemaLists ==
    { << >>, << <<"s1", ".json">> >>, << <<"s2", ".v1", ".json">> >>,
      << <<"s1", ".json">>, <<"s2", ".v1", ".json">> >>,
      << <<"s2", ".v1", ".json">>, <<"s1", ".json">> >> }

\* attempts lists run_single_schema can return
AttemptLists ==
    { <<Passed>>,
      <<Failure("openai", "api_error"), Passed>>,
      <<Failure("convert", "conversion_failed")>>,
      <<Failure("openai", "null_content"), Failure("openai", "api_error")>> }

NoFiles == << >>

\* the if / elif chain on classification: the list the result is appended to
ClassList(classification) ==
    CASE classification = "solid_pass" -> "solid_passes"
      [] classification = "flaky_pass" -> "flaky_passes"
      [] classification = "expected_fail" -> "expected_fail_list"
      [] classification = "unexpected_pass" -> "unexpected_pass_list"
      [] OTHER -> "solid_fails"

\* `if solid_fails or unexpected_pass_list: sys.exit(1)`
ExitStatus_fails_only(solid_fails, unexpected_pass_list) ==
    IF solid_fails # << >> THEN 1 ELSE 0

ExitStatus(solid_fails, unexpected_pass_list) ==
    IF solid_fails # << >> \/ unexpected_pass_list # << >> THEN 1 ELSE 0

\* one iteration of `for schema_file in schemas`
MainTest ==
    /\ smain.pc = "loop"
    /\ smain.i <= Len(smain.schemas)
    /\ \/ \E attempts \in AttemptLists :
             \E c \in {classify_result([file |-> smain.schemas[smain.i],
                                        verdict |-> verdict_of(attempts),
                                        attempts |-> attempts],
                                       smain.expected_failures)} :
                smain' = [smain EXCEPT
                            !.i = @ + 1,
                            !.lists[ClassList(c)] =
                                Append(@, smain.schemas[smain.i]),
                            !.detailed_results = Append(@, c)]
       \/ smain' = [smain EXCEPT !.pc = "crashed", !.exit = 1]
    /\ UNCHANGED <<hostVars, convVars, convert_options, rt, gen, val, run, fmt,
                   car, pipe, cmp, strip, san, prng, shuf>>

\* summary, report, and the exit status
MainExit ==
    /\ smain.pc = "loop"
    /\ smain.i > Len(smain.schemas)
    /\ smain' = [smain EXCEPT
                   !.pc = "exited",
                   !.exit = ExitStatus(smain.lists["solid_fails"],
                                       smain.lists["unexpected_pass_list"])]
    /\ UNCHANGED <<hostVars, convVars, convert_options, rt, gen, val, run, fmt,
                   car, pipe, cmp, strip, san, prng, shuf>>

Classes == {"solid_pass", "flaky_pass", "expected_fail", "unexpected_pass",
            "solid_fail"}

ListNames == {"solid_passes", "flaky_passes", "expected_fail_list",
              "unexpected_pass_list", "solid_fails"}

InitMain ==
    /\ IdleEngine("stress", "main")
    /\ \E fs \in SchemaLists, ef \in ExpectedFailures :
          smain = [pc |-> "loop", schemas |-> fs, expected_failures |-> ef,
                   i |-> 1, lists |-> [l \in ListNames |-> NoFiles],
                   detailed_results |-> << >>, exit |-> 0]
    /\ car = Unused
    /\ pipe = Unused
    /\ cmp = Unused
    /\ strip = Unused
    /\ san = Unused
    /\ prng = Unused
    /\ shuf = Unused

NextMain == MainTest \/ MainExit

SpecMain == InitMain /\ [][NextMain]_vars

InList(l, f) == \E k \in 1..Len(smain.lists[l]) : smain.lists[l][k] = f

-----------------------------------------------------------------------------
\* compare_reports and get_exit_code (src/scripts/stress/compare_reports.py).
\* A report is a function from the base names of its detailed_results to
\* entries; an entry holds classification and verdict, "absent" when the key
\* is missing.

SchemaNames == <<"alpha", "beta">>

ReportEntries ==
    [classification : Classes, verdict : {"solid_fail"}]
        \cup {[classification |-> "absent", verdict |-> "solid_pass"],
              [classification |-> "absent", verdict |-> "absent"]}

Reports ==
    UNION {[ns -> ReportEntries] : ns \in SUBSET {"alpha", "beta"}}

\* entry.get("classification", entry.get("verdict"))
extract_verdicts(report) ==
    [n \in DOMAIN report |->
        IF report[n].classification # "absent" THEN report[n].classification
        ELSE IF report[n].verdict # "absent" THEN report[n].verdict
        ELSE "None"]

PASSING == {"solid_pass", "flaky_pass", "unexpected_pass"}

\* sorted(names): the names in SchemaNames order
Sorted(names) == SelectSeq(SchemaNames, LAMBDA n : n \in names)

baseline_only_all(base_keys, curr_keys) == Sorted(base_keys)

baseline_only(base_keys, curr_keys) == Sorted(base_keys \ curr_keys)

current_only(base_keys, curr_keys) == Sorted(curr_keys \ base_keys)

\* the list a common schema is appended to
Transition(old, new) ==
    IF old = new THEN "unchanged"
    ELSE IF old = "expected_fail" /\ new \in PASSING THEN "fixes"
    ELSE IF old = "unexpected_pass" /\ new = "solid_pass" THEN "config_drift"
    ELSE IF old = "solid_pass" /\ new = "flaky_pass" THEN "new_flaky"
    ELSE IF old \in PASSING /\ new \notin PASSING THEN "new_failures"
    ELSE IF old \notin PASSING /\ new \in PASSING THEN "new_passes"
    ELSE "unchanged"

get_exit_code_lenient(result, strict) ==
    IF result["new_failures"] # << >> THEN 1 ELSE 0

get_exit_code(result, strict) ==
    IF result["new_failures"] # << >> THEN 1
    ELSE IF strict /\ result["new_flaky"] # << >> THEN 1
    ELSE 0

TransitionLists == {"unchanged", "fixes", "config_drift", "new_flaky",
                    "new_failures", "new_passes"}

ResultLists == TransitionLists \cup {"baseline_only", "current_only"}

NoVerdicts == [n \in {} |-> "None"]

\* _extract_verdicts of both reports and the ComparisonResult constructor
CmpExtract ==
    /\ cmp.pc = "start"
    /\ \E bv \in {extract_verdicts(cmp.baseline)},
          cv \in {extract_verdicts(cmp.current)} :
          cmp' = [cmp EXCEPT
                    !.pc = "loop",
                    !.base_verdicts = bv,
                    !.curr_verdicts = cv,
                    !.common = Sorted(DOMAIN bv \cap DOMAIN cv),
                    !.result["baseline_only"] =
                        baseline_only(DOMAIN bv, DOMAIN cv),
                    !.result["current_only"] =
                        current_only(DOMAIN bv, DOMAIN cv)]
    /\ UNCHANGED <<hostVars, convVars, convert_options, rt, gen, val, run, fmt,
                   car, pipe, smain, strip, san, prng, shuf>>

\* one iteration of `for schema in sorted(common)`
CmpTransition ==
    /\ cmp.pc = "loop"
    /\ cmp.i <= Len(cmp.common)
    /\ \E schema \in {cmp.common[cmp.i]} :
          cmp' = [cmp EXCEPT
                    !.i = @ + 1,
                    !.result[Transition(cmp.base_verdicts[schema],
                                        cmp.curr_verdicts[schema])] =
                        Append(@, schema)]
    /\ UNCHANGED <<hostVars, convVars, convert_options, rt, gen, val, run, fmt,
                   car, pipe, smain, strip, san, prng, shuf>>

\* return result, then get_exit_code(result, strict)
CmpExit ==
    /\ cmp.pc = "loop"
    /\ cmp.i > Len(cmp.common)
    /\ cmp' = [cmp EXCEPT !.pc = "done",
                          !.exit = get_exit_code(cmp.result, cmp.strict)]
    /\ UNCHANGED <<hostVars, convVars, convert_options, rt, gen, val, run, fmt,
                   car, pipe, smain, strip, san, prng, shuf>>

InitCmp ==
    /\ IdleEngine("stress", "compare_reports")
    /\ \E b \in Reports, c \in Reports, st \in BOOLEAN :
          cmp = [pc |-> "start", baseline |-> b, current |-> c, strict |-> st,
                 base_verdicts |-> NoVerdicts, curr_verdicts |-> NoVerdicts,
                 common |-> << >>, i |-> 1,
                 result |-> [l \in ResultLists |-> << >>], exit |-> 0]
    /\ car = Unused
    /\ pipe = Unused
    /\ smain = Unused
    /\ strip = Unused
    /\ san = Unused
    /\ prng = Unused
    /\ shuf = Unused

NextCmp == CmpExtract \/ CmpTransition \/ CmpExit

SpecCmp == InitCmp /\ [][NextCmp]_vars

\* how often name n is listed in list l of the result
Listed(l, n) ==
    Cardinality({k \in 1..Len(cmp.result[l]) : cmp.result[l][k] = n})

\* the classification a report gives a name, read off the report itself
ClassOf(report, n) ==
    IF report[n].classification \in Classes THEN report[n].classification
    ELSE IF report[n].verdict = "solid_pass" THEN "solid_pass" ELSE "None"

\* C25: compare_reports puts every schema that was passing in the baseline and
\* is not passing now into new_failures, and get_exit_code is 1 exactly when
\* new_failures is non-empty or strict is set and new_flaky is non-empty.
C25_NewFailures ==
    cmp.pc = "done" =>
        /\ \A n \in DOMAIN cmp.baseline \cap DOMAIN cmp.current :
              (ClassOf(cmp.baseline, n) \in PASSING
                 /\ ClassOf(cmp.current, n) \notin PASSING)
                 => Listed("new_failures", n) = 1
        /\ cmp.exit \in {0, 1}
        /\ cmp.exit = 1 <=>
              \/ cmp.result["new_failures"] # << >>
              \/ cmp.strict /\ cmp.result["new_flaky"] # << >>

C25_Witness ==
    /\ cmp.pc = "done"
    /\ ~cmp.strict
    /\ cmp.exit = 1
    /\ DOMAIN cmp.baseline = {"alpha", "beta"}
    /\ DOMAIN cmp.current = {"alpha", "beta"}
    /\ ClassOf(cmp.baseline, "alpha") = "unexpected_pass"
    /\ ClassOf(cmp.current, "alpha") = "expected_fail"
    /\ cmp.result["new_failures"] = <<"alpha">>
    /\ cmp.result["new_flaky"] = <<"beta">>

\* C26: compare_reports partitions the names: a name in both reports is in
\* exactly one of the six transition lists, a name only in the baseline only in
\* baseline_only, a name only in the current report only in current_only; no
\* name is lost or listed twice.
C26_Partition ==
    cmp.pc = "done" =>
        \A n \in {"alpha", "beta"} :
           LET inBase == n \in DOMAIN cmp.baseline
               inCurr == n \in DOMAIN cmp.current
               lists  == {l \in ResultLists : Listed(l, n) > 0}
           IN  /\ \A l \in ResultLists : Listed(l, n) <= 1
               /\ (inBase /\ inCurr) =>
                     (Cardinality(lists) = 1 /\ lists \subseteq TransitionLists)
               /\ (inBase /\ ~inCurr) => lists = {"baseline_only"}
               /\ (~inBase /\ inCurr) => lists = {"current_only"}
               /\ (~inBase /\ ~inCurr) => lists = {}

C26_Witness ==
    /\ cmp.pc = "done"
    /\ DOMAIN cmp.baseline = {"alpha", "beta"}
    /\ DOMAIN cmp.current = {"beta"}
    /\ cmp.result["baseline_only"] = <<"alpha">>
    /\ cmp.result["unchanged"] = <<"beta">>
    /\ ClassOf(cmp.baseline, "beta") = "flaky_pass"
    /\ ClassOf(cmp.current, "beta") = "solid_pass"

-----------------------------------------------------------------------------
\* strip_meta_schemas (src/scripts/preprocess-asyncapi.py).  A definition name
\* is a sequence of tokens, so that FooBar = <<"Foo", "Bar">> starts with
\* Foo = <<"Foo">>; a $ref string is "#/definitions/" + name + tail, where the
\* tail is empty or starts with "/".  A schema node is a leaf, a dict with a
\* $ref and at most one sibling key, or a dict with the single key items.

DefNames == {<<"Foo">>, <<"Foo", "Bar">>, <<"Baz">>}

RefTails == {"", "/properties/id"}

Leaf == [k |-> "leaf"]

Absent == [k |-> "absent"]

EmptySchema == [k |-> "empty"]

RefNode(name, tail, sib) == [k |-> "ref", name |-> name, tail |-> tail, sib |-> sib]

Items(child) == [k |-> "items", sib |-> child]

Nodes0 == {Leaf} \cup {RefNode(n, t, Absent) : n \in DefNames, t \in RefTails}

Nodes1 ==
    Nodes0 \cup {Items(c) : c \in Nodes0}
           \cup {RefNode(n, "", c) : n \in DefNames, c \in Nodes0}

IsPrefix(a, b) == Len(a) <= Len(b) /\ SubSeq(b, 1, Len(a)) = a

\* obj["$ref"].startswith(prefixes)
StartsWithPrefixes(name, meta_names) ==
    \E m \in meta_names : IsPrefix(m, name)

RECURSIVE rewrite(_, _)
rewrite(obj, meta_names) ==
    CASE obj.k = "ref" ->
            IF StartsWithPrefixes(obj.name, meta_names)
            THEN IF obj.sib = Absent THEN EmptySchema
                 ELSE rewrite(Items(obj.sib), meta_names)
            ELSE IF obj.sib = Absent THEN obj
                 ELSE [obj EXCEPT !.sib = rewrite(obj.sib, meta_names)]
      [] obj.k = "items" -> Items(rewrite(obj.sib, meta_names))
      [] OTHER -> obj

\* bodies of the root definitions: Foo a meta-schema leaf, the others a leaf
\* or a reference
RootDefs ==
    { [n \in ns |-> IF n = <<"Foo">> THEN Leaf ELSE b] :
         ns \in SUBSET DefNames,
         b \in {Leaf, RefNode(<<"Foo">>, "", Absent),
                RefNode(<<"Foo", "Bar">>, "", Absent)} }

\* the loop `for name in meta_names: del root_defs[name]`
StripDelete ==
    /\ strip.pc = "delete"
    /\ strip' = [strip EXCEPT
                   !.pc = "rewrite",
                   !.root_defs = [n \in DOMAIN strip.definitions
                                          \ strip.meta_names |->
                                     strip.definitions[n]]]
    /\ UNCHANGED <<hostVars, convVars, convert_options, rt, gen, val, run, fmt,
                   car, pipe, smain, cmp, san, prng, shuf>>

\* return rewrite(schema)
StripRewrite ==
    /\ strip.pc = "rewrite"
    /\ strip' = [strip EXCEPT
                   !.pc = "returned",
                   !.result =
                      [definitions |->
                          [n \in DOMAIN strip.root_defs |->
                              rewrite(strip.root_defs[n], strip.meta_names)],
                       x |-> rewrite(strip.x, strip.meta_names)]]
    /\ UNCHANGED <<hostVars, convVars, convert_options, rt, gen, val, run, fmt,
                   car, pipe, smain, cmp, san, prng, shuf>>

InitStrip ==
    /\ IdleEngine("preprocess-asyncapi", "strip_meta_schemas")
    /\ \E defs \in RootDefs, node \in Nodes1, names \in SUBSET DefNames :
          strip = [pc |-> "delete", definitions |-> defs, x |-> node,
                   meta_names |-> names, root_defs |-> defs,
                   result |-> [definitions |-> defs, x |-> node]]
    /\ car = Unused
    /\ pipe = Unused
    /\ smain = Unused
    /\ cmp = Unused
    /\ san = Unused
    /\ prng = Unused
    /\ shuf = Unused

NextStrip == StripDelete \/ StripRewrite

SpecStrip == InitStrip /\ [][NextStrip]_vars

\* the $refs of a node, each with the path of keys that leads to it
RECURSIVE RefsOf(_, _)
RefsOf(obj, path) ==
    CASE obj.k = "ref" ->
            {<<path, obj.name, obj.tail>>}
               \cup (IF obj.sib = Absent THEN {}
                     ELSE RefsOf(obj.sib, Append(path, "items")))
      [] obj.k = "items" -> RefsOf(obj.sib, Append(path, "items"))
      [] OTHER -> {}

SchemaRefs(schema) ==
    RefsOf(schema.x, <<"x">>)
       \cup UNION {RefsOf(schema.definitions[n], <<"definitions">> \o n) :
                      n \in DOMAIN schema.definitions}

\* C27: strip_meta_schemas replaces exactly the references to removed
\* definitions: no definition in names remains under the root definitions, no
\* $ref to a removed definition remains in the result, and every $ref to a
\* definition not in names is left unchanged.
C27_StripsExactly ==
    strip.pc = "returned" =>
        /\ DOMAIN strip.result.definitions \cap strip.meta_names = {}
        /\ \A r \in SchemaRefs(strip.result) : r[2] \notin strip.meta_names
        /\ \A r \in SchemaRefs([definitions |-> strip.root_defs, x |-> strip.x]) :
              r[2] \notin strip.meta_names => r \in SchemaRefs(strip.result)

\* ---------------------------------------------------------------------------
\* The two schema-name sanitizers: sanitize_schema_name of the stress bot
\* (examples/stress-test-bot-python/main.py) and _sanitize_schema_name of the
\* stress runner (scripts/stress/run_cli_test.py).  A name is a sequence of
\* characters; a character is a one-letter string, or the code point of a
\* character outside ASCII.
\* ---------------------------------------------------------------------------

\* longest free tail of an input name
MaxTail == 2

\* the slice bound of `sanitized[:64]`
NAME_LIMIT == 64

AsciiLetters == {"a", "Z", "s", "c", "h", "e", "m"}

AsciiDigits == {"7"}

\* U+00E9 (e with acute accent) is a letter and U+0663 (ARABIC-INDIC DIGIT
\* THREE) a decimal digit: str.isalnum() is true of both
UnicodeAlnum == {"U+00E9", "U+0663"}

\* characters for which str.isalnum() is false
Punctuation == {"_", "-", ".", " "}

\* the characters the input names are made of
NameChars == {"a", "Z", "7", "U+00E9", "U+0663", "_", "-", ".", " "}

\* the character class [a-zA-Z0-9_-] of the regular expression
InClass(c) == c \in AsciiLetters \cup AsciiDigits \cup {"_", "-"}

\* c.isalnum() for a one-character str
isalnum(c) == c \in AsciiLetters \cup AsciiDigits \cup UnicodeAlnum

\* s[:n]
Slice(s, n) == SubSeq(s, 1, min2(n, Len(s)))

\* "".join(c if c.isalnum() or c in "_-" else "_" for c in name), then
\* sanitized[:64] or "schema"
sanitize_schema_name(name) ==
    LET sanitized == [i \in 1..Len(name) |->
                        IF isalnum(name[i]) \/ name[i] \in {"_", "-"}
                        THEN name[i] ELSE "_"]
    IN  IF Slice(sanitized, NAME_LIMIT) # << >>
        THEN Slice(sanitized, NAME_LIMIT)
        ELSE <<"s", "c", "h", "e", "m", "a">>

\* re.sub(r"[^a-zA-Z0-9_-]", "_", name), then sanitized[:64]
_sanitize_schema_name(name) ==
    Slice([i \in 1..Len(name) |-> IF InClass(name[i]) THEN name[i] ELSE "_"],
          NAME_LIMIT)


\* the string made of n copies of c
Repeat(c, n) == [i \in 1..n |-> c]

\* every sequence over S of length at most n
SeqUpTo(S, n) == UNION {[1..k -> S] : k \in 0..n}

\* input names: a run of one character, as long as the limit or one off it
\* either way, followed by a free tail
Names ==
    {Repeat(c, n) \o tail :
        c \in {"a", "."},
        n \in {0, 1, NAME_LIMIT - 1, NAME_LIMIT, NAME_LIMIT + 1},
        tail \in SeqUpTo(NameChars, MaxTail)}

\* the stress bot names the response format of a schema
SanitizeBot ==
    /\ san.pc = "call"
    /\ san.sanitizer = "sanitize_schema_name"
    /\ san' = [san EXCEPT !.pc = "returned",
                          !.result = sanitize_schema_name(san.name)]
    /\ UNCHANGED <<hostVars, convVars, convert_options, rt, gen, val, run, fmt,
                   car, pipe, smain, cmp, strip, prng, shuf>>

\* the stress runner names the response format of a schema
SanitizeRunner ==
    /\ san.pc = "call"
    /\ san.sanitizer = "_sanitize_schema_name"
    /\ san' = [san EXCEPT !.pc = "returned",
                          !.result = _sanitize_schema_name(san.name)]
    /\ UNCHANGED <<hostVars, convVars, convert_options, rt, gen, val, run, fmt,
                   car, pipe, smain, cmp, strip, prng, shuf>>

InitSan ==
    /\ IdleEngine("stress", "sanitize_schema_name")
    /\ \E name \in Names,
          f \in {"sanitize_schema_name", "_sanitize_schema_name"} :
          san = [pc |-> "call", sanitizer |-> f, name |-> name,
                 result |-> << >>]
    /\ car = Unused
    /\ pipe = Unused
    /\ smain = Unused
    /\ cmp = Unused
    /\ strip = Unused
    /\ prng = Unused
    /\ shuf = Unused

NextSan == SanitizeBot \/ SanitizeRunner

SpecSan == InitSan /\ [][NextSan]_vars

\* C28: whatever the name, either sanitizer returns at most 64 characters,
\* all of them in a-z, A-Z, 0-9, "_" and "-"; a character of the name outside
\* that set has become "_" and one inside it is kept.
C28_SanitizedName ==
    san.pc = "returned" =>
        /\ Len(san.result) <= NAME_LIMIT
        /\ \A i \in 1..Len(san.result) : InClass(san.result[i])
        /\ \A i \in 1..min2(Len(san.name), NAME_LIMIT) :
              /\ i <= Len(san.result)
              /\ san.result[i] =
                    IF InClass(san.name[i]) THEN san.name[i] ELSE "_"

\* ---------------------------------------------------------------------------
\* _mulberry32 (examples/stress-test-bot-python/main.py).  Python integers
\* are unbounded, so an integer is a finite two's-complement numeral in base
\* 256, least significant limb first: [neg, limbs] stands for
\*     limbs[1] + 256 * limbs[2] + ... - (IF neg THEN 256 ^ Len(limbs) ELSE 0)
\* and the operators below are Python's &, |, ^, +, -, *, >> and >= on such
\* numerals.  The code's masks and wraps are then computed, not assumed.
\* ---------------------------------------------------------------------------

max2(a, b) == IF a > b THEN a ELSE b

\* the element of a one-element set; {e(v) : v \in {d}} is e(d) with d
\* computed once
The(S) == CHOOSE r \in S : TRUE

\* the limb that extends a numeral to the left
Ext(x) == IF x.neg THEN 255 ELSE 0

Limb(x, i) == IF i <= Len(x.limbs) THEN x.limbs[i] ELSE Ext(x)

\* how many limbs a numeral needs: up to the last one that differs from Ext
Need(x) ==
    CHOOSE n \in 0..Len(x.limbs) :
       /\ n > 0 => x.limbs[n] # Ext(x)
       /\ \A i \in n + 1..Len(x.limbs) : x.limbs[i] = Ext(x)

\* the shortest numeral of the same integer
Norm(x0) ==
    The({[neg |-> x.neg,
          limbs |-> SubSeq(x.limbs, 1, Need(x))] :
         x \in {x0}})

\* a non-negative literal, most significant limb first
Lit(digits) ==
    Norm([neg |-> FALSE,
          limbs |-> [i \in 1..Len(digits) |-> digits[Len(digits) + 1 - i]]])

\* a & b on limbs
And8(a, b) ==
    LET f[i \in 0..8] ==
           IF i = 8 THEN 0
           ELSE ((a \div Pow2(i)) % 2) * ((b \div Pow2(i)) % 2) * Pow2(i)
                + f[i + 1]
    IN  f[0]

\* x & y
PyAnd(x0, y0) ==
    The({Norm([neg |-> x.neg /\ y.neg,
               limbs |-> [i \in 1..max2(Len(x.limbs), Len(y.limbs)) |->
                             And8(Limb(x, i), Limb(y, i))]]) :
         x \in {x0}, y \in {y0}})

\* x | y
PyOr(x0, y0) ==
    The({Norm([neg |-> x.neg \/ y.neg,
               limbs |-> [i \in 1..max2(Len(x.limbs), Len(y.limbs)) |->
                             Limb(x, i) + Limb(y, i)
                             - And8(Limb(x, i), Limb(y, i))]]) :
         x \in {x0}, y \in {y0}})

\* x ^ y
PyXor(x0, y0) ==
    The({Norm([neg |-> x.neg # y.neg,
               limbs |-> [i \in 1..max2(Len(x.limbs), Len(y.limbs)) |->
                             Limb(x, i) + Limb(y, i)
                             - 2 * And8(Limb(x, i), Limb(y, i))]]) :
         x \in {x0}, y \in {y0}})

\* ~x
PyNot(x0) ==
    The({[neg |-> ~x.neg,
          limbs |-> [i \in 1..Len(x.limbs) |-> 255 - x.limbs[i]]] :
         x \in {x0}})

\* the carries of x + y + cin, c[i] out of limb i
Carries(x, y, cin, n) ==
    LET c[i \in 0..n] ==
           IF i = 0 THEN cin
           ELSE (Limb(x, i) + Limb(y, i) + c[i - 1]) \div 256
    IN  [i \in 0..n |-> c[i]]

\* x + y + cin, over one limb more than the longer operand so that the sign
\* is the top bit of the sum
AddC(x0, y0, cin) ==
    The({The({Norm([neg |-> ((Limb(x, n) + Limb(y, n) + c[n - 1]) % 256) >= 128,
                    limbs |-> [i \in 1..n |->
                                  (Limb(x, i) + Limb(y, i) + c[i - 1]) % 256]]) :
              c \in {Carries(x, y, cin,
                             max2(Len(x.limbs), Len(y.limbs)) + 1)},
              n \in {max2(Len(x.limbs), Len(y.limbs)) + 1}}) :
         x \in {x0}, y \in {y0}})

\* x + y
PyAdd(x, y) == AddC(x, y, 0)

\* x - y
PySub(x, y) == AddC(x, PyNot(y), 1)

\* x >= y
PyGeq(x, y) == ~PySub(x, y).neg

\* column k of the long multiplication of x and y
Column(x, y, k) ==
    LET g[i \in 0..Len(x.limbs)] ==
           IF i = 0 THEN 0
           ELSE g[i - 1]
                + (IF k + 1 - i \in 1..Len(y.limbs)
                   THEN x.limbs[i] * y.limbs[k + 1 - i] ELSE 0)
    IN  g[Len(x.limbs)]

\* x * y for non-negative x and y
PyMul(x0, y0) ==
    The({The({The({Norm([neg |-> FALSE,
                         limbs |-> [k \in 1..Len(col) |->
                                       (col[k] + c[k - 1]) % 256]]) :
                   c \in {LET d[k \in 0..Len(col)] ==
                                 IF k = 0 THEN 0
                                 ELSE (col[k] + d[k - 1]) \div 256
                          IN  [k \in 0..Len(col) |-> d[k]]}}) :
              col \in {[k \in 1..Len(x.limbs) + Len(y.limbs) |->
                           Column(x, y, k)]}}) :
         x \in {x0}, y \in {y0}})

\* x >> n for non-negative x
PyRshift(x0, n) ==
    The({Norm([neg |-> FALSE,
               limbs |-> [i \in 1..max2(Len(x.limbs) - (n \div 8), 0) |->
                             (Limb(x, i + (n \div 8)) \div Pow2(n % 8))
                             + (Limb(x, i + (n \div 8) + 1) % Pow2(n % 8))
                               * Pow2(8 - (n % 8))]]) :
         x \in {x0}})

\* 0xFFFFFFFF
Mask32 == Lit(<<255, 255, 255, 255>>)

\* no truncation at all
_to_int32_unwrapped(x) == x

\* x & 0xFFFFFFFF, then minus 0x100000000 from 0x80000000 up
_to_int32(x) ==
    The({IF PyGeq(m, Lit(<<128, 0, 0, 0>>))
         THEN PySub(m, Lit(<<1, 0, 0, 0, 0>>))
         ELSE m :
         m \in {PyAnd(x, Mask32)}})

\* (val & 0xFFFFFFFF) >> n
_unsigned_rshift(v, n) == PyRshift(PyAnd(v, Mask32), n)

\* _to_int32((a & 0xFFFFFFFF) * (b & 0xFFFFFFFF))
_imul(a, b) == _to_int32(PyMul(PyAnd(a, Mask32), PyAnd(b, Mask32)))

\* how many times a generator is called
MaxCalls == 3

\* -x
PyNeg(x) == PySub(Lit(<< >>), x)

\* seeds: small ones, the ends of the signed and unsigned 32-bit ranges and
\* their neighbours, negative ones and ones far above 2 ^ 32
Seeds ==
    {Lit(<< >>), Lit(<<1>>), Lit(<<42>>),
     Lit(<<127, 255, 255, 255>>), Lit(<<128, 0, 0, 0>>),
     Lit(<<255, 255, 255, 255>>), Lit(<<1, 0, 0, 0, 0>>),
     Lit(<<1, 0, 0, 0, 42>>), Lit(<<7, 91, 205, 21, 0, 0, 9>>),
     PyNeg(Lit(<<1>>)), PyNeg(Lit(<<42>>)), PyNeg(Lit(<<128, 0, 0, 0>>)),
     PyNeg(Lit(<<128, 0, 0, 1>>)), PyNeg(Lit(<<3, 0, 0, 0, 0, 5>>))}

\* the two generators made from the same seed
Generators == {1, 2}

\* rng = _mulberry32(seed): s = _to_int32(seed)
Mulberry32(g) ==
    /\ prng.pc[g] = "create"
    /\ prng' = [prng EXCEPT !.pc[g] = "ready",
                            !.s[g] = _to_int32(prng.seed)]
    /\ UNCHANGED <<hostVars, convVars, convert_options, rt, gen, val, run, fmt,
                   car, pipe, smain, cmp, strip, san, shuf>>

\* the closure random() on the state s0: the new state s and the numerator
\* k of the returned k / 4294967296
random(s0) ==
    The({The({The({[s |-> s,
                    k |-> _unsigned_rshift(PyXor(t, _unsigned_rshift(t, 14)),
                                           0)] :
                   t \in {_to_int32(
                             PyXor(PyAdd(t1,
                                         _imul(PyXor(t1,
                                                     _unsigned_rshift(t1, 7)),
                                               PyOr(Lit(<<61>>), t1))),
                                   t1))}}) :
              t1 \in {_imul(PyXor(s, _unsigned_rshift(s, 15)),
                            PyOr(Lit(<<1>>), s))}}) :
         s \in {_to_int32(PyAdd(s0, Lit(<<109, 43, 121, 245>>)))}})

\* rng()
RandomCall(g) ==
    /\ prng.pc[g] = "ready"
    /\ Len(prng.out[g]) < MaxCalls
    /\ \E r \in {random(prng.s[g])} :
          prng' = [prng EXCEPT !.s[g] = r.s, !.out[g] = Append(@, r.k)]
    /\ UNCHANGED <<hostVars, convVars, convert_options, rt, gen, val, run, fmt,
                   car, pipe, smain, cmp, strip, san, shuf>>

InitPrng ==
    /\ IdleEngine("stress-test-bot", "_mulberry32")
    /\ \E seed \in Seeds :
          prng = [pc |-> [g \in Generators |-> "create"], seed |-> seed,
                  s |-> [g \in Generators |-> seed],
                  out |-> [g \in Generators |-> << >>]]
    /\ car = Unused
    /\ pipe = Unused
    /\ smain = Unused
    /\ cmp = Unused
    /\ strip = Unused
    /\ san = Unused
    /\ shuf = Unused

NextPrng == \E g \in Generators : Mulberry32(g) \/ RandomCall(g)

SpecPrng == InitPrng /\ [][NextPrng]_vars

\* -2 ^ 31 <= x < 2 ^ 31
InInt32(x) ==
    /\ x = Norm(x)
    /\ Len(x.limbs) <= 4
    /\ Len(x.limbs) = 4 => (x.neg <=> x.limbs[4] >= 128)

\* 0 <= x < 2 ^ 32
InUint32(x) == x = Norm(x) /\ ~x.neg /\ Len(x.limbs) <= 4

\* C29: whatever the seed, the state of a generator is a signed 32-bit
\* integer after it is made and after every call, every call returns
\* k / 2 ^ 32 with 0 <= k < 2 ^ 32, and two generators made from one seed
\* return the same values call for call.
C29_Mulberry32 ==
    /\ \A g \in Generators :
          prng.pc[g] = "ready" =>
             /\ InInt32(prng.s[g])
             /\ \A i \in 1..Len(prng.out[g]) : InUint32(prng.out[g][i])
    /\ \A i \in 1..min2(Len(prng.out[1]), Len(prng.out[2])) :
          prng.out[1][i] = prng.out[2][i]

C29_Witness ==
    /\ ~InInt32(prng.seed)
    /\ \A g \in Generators : Len(prng.out[g]) = MaxCalls
    /\ prng.out[1][1] # prng.out[1][2]

\* ---------------------------------------------------------------------------
\* fisher_yates_shuffle (examples/stress-test-bot-python/main.py).  Lists are
\* objects: heap maps a reference to the list it holds, so that a write
\* through one reference is seen through every alias of it.
\* ---------------------------------------------------------------------------

\* longest input list
MaxArr == 3

\* input lists, with repeated elements among them
Arrs == SeqUpTo({"a", "b", "c"}, MaxArr)

\* seed=None
NoSeed == [none |-> TRUE]

ShuffleSeeds ==
    {NoSeed, Lit(<< >>), Lit(<<42>>), Lit(<<1, 0, 0, 0, 7>>),
     PyNeg(Lit(<<5>>))}

\* the same list object
list_alias(ref) == ref

\* list(arr): a new list object, known by the reference "copy"
list(ref) == "copy"

\* math.floor(x * (i + 1)) for x = k / 4294967296: the product is exact in a
\* float, and its floor is k * (i + 1) >> 32
floor_scaled(k, i) ==
    The({IF n.limbs = << >> THEN 0 ELSE n.limbs[1] :
         n \in {PyRshift(PyMul(k, Lit(<<i + 1>>)), 32)}})

\* copy[i], copy[j] = copy[j], copy[i]
Swap(l, i, j) == [l EXCEPT ![i] = l[j], ![j] = l[i]]

\* copy = list(arr); rng = _mulberry32(seed) if seed is not None
\* else random.random; i = len(copy) - 1
ShuffleBegin ==
    /\ shuf.pc = "call"
    /\ shuf' = [shuf EXCEPT
                  !.pc = "loop",
                  !.copy = list("arr"),
                  !.heap = [@ EXCEPT ![list("arr")] = shuf.heap["arr"]],
                  !.s = IF shuf.seed = NoSeed THEN NoSeed
                        ELSE _to_int32(shuf.seed),
                  !.i = Len(shuf.heap["arr"]) - 1,
                  !.swaps = << >>]
    /\ UNCHANGED <<hostVars, convVars, convert_options, rt, gen, val, run, fmt,
                   car, pipe, smain, cmp, strip, san, prng>>

\* one turn of the loop with rng = _mulberry32(seed)
ShuffleStepSeeded ==
    /\ shuf.pc = "loop"
    /\ shuf.i >= 1
    /\ shuf.seed # NoSeed
    /\ \E r \in {random(shuf.s)} :
       \E j \in {floor_scaled(r.k, shuf.i)} :
          shuf' = [shuf EXCEPT
                     !.s = r.s,
                     !.heap = [@ EXCEPT ![shuf.copy] =
                                  Swap(@, shuf.i + 1, j + 1)],
                     !.swaps = Append(@, <<shuf.i, j>>),
                     !.i = @ - 1]
    /\ UNCHANGED <<hostVars, convVars, convert_options, rt, gen, val, run, fmt,
                   car, pipe, smain, cmp, strip, san, prng>>

\* one turn of the loop with rng = random.random, which returns a float x
\* with 0 <= x < 1: math.floor(x * (i + 1)) is then any of 0..i
ShuffleStepRandom ==
    /\ shuf.pc = "loop"
    /\ shuf.i >= 1
    /\ shuf.seed = NoSeed
    /\ \E j \in 0..shuf.i :
          shuf' = [shuf EXCEPT
                     !.heap = [@ EXCEPT ![shuf.copy] =
                                  Swap(@, shuf.i + 1, j + 1)],
                     !.swaps = Append(@, <<shuf.i, j>>),
                     !.i = @ - 1]
    /\ UNCHANGED <<hostVars, convVars, convert_options, rt, gen, val, run, fmt,
                   car, pipe, smain, cmp, strip, san, prng>>

\* return copy; the caller then calls again with the same arguments
ShuffleReturn ==
    /\ shuf.pc = "loop"
    /\ shuf.i < 1
    /\ shuf' = [shuf EXCEPT
                  !.pc = IF Len(shuf.returned) = 0 THEN "call" ELSE "done",
                  !.returned = Append(@, shuf.heap[shuf.copy])]
    /\ UNCHANGED <<hostVars, convVars, convert_options, rt, gen, val, run, fmt,
                   car, pipe, smain, cmp, strip, san, prng>>

InitShuf ==
    /\ IdleEngine("stress-test-bot", "fisher_yates_shuffle")
    /\ \E arr \in Arrs, seed \in ShuffleSeeds :
          shuf = [pc |-> "call", arr |-> arr, seed |-> seed,
                  heap |-> [ref \in {"arr", "copy"} |->
                               IF ref = "arr" THEN arr ELSE << >>],
                  copy |-> "arr", s |-> NoSeed, i |-> 0, swaps |-> << >>,
                  returned |-> << >>]
    /\ car = Unused
    /\ pipe = Unused
    /\ smain = Unused
    /\ cmp = Unused
    /\ strip = Unused
    /\ san = Unused
    /\ prng = Unused

NextShuf ==
    ShuffleBegin \/ ShuffleStepSeeded \/ ShuffleStepRandom \/ ShuffleReturn

SpecShuf == InitShuf /\ [][NextShuf]_vars

IsPermutation(l, m) ==
    /\ Len(l) = Len(m)
    /\ \A i \in 1..Len(l) : Occurrences(l, l[i]) = Occurrences(m, l[i])

\* C30: every returned list is a permutation of arr, arr itself is never
\* changed, every swap index j satisfies 0 <= j <= i, and with a seed other
\* than None two calls return the same order.
C30_Shuffle ==
    /\ shuf.heap["arr"] = shuf.arr
    /\ \A n \in 1..Len(shuf.returned) : IsPermutation(shuf.returned[n], shuf.arr)
    /\ \A n \in 1..Len(shuf.swaps) :
          0 <= shuf.swaps[n][2] /\ shuf.swaps[n][2] <= shuf.swaps[n][1]
    /\ (shuf.seed # NoSeed /\ Len(shuf.returned) = 2) =>
          shuf.returned[1] = shuf.returned[2]

C30_Witness ==
    /\ shuf.pc = "done"
    /\ shuf.seed # NoSeed
    /\ Len(shuf.arr) = MaxArr
    /\ shuf.returned[2] # shuf.arr
    /\ Len(shuf.swaps) = MaxArr - 1
====
